---- MODULE Spec2Model ----
(***************************************************************************)
(* Emotion fusion engine (backend/emotion_fusion.py), emotion aligner      *)
(* (backend/emotion_aligner.py) and the request handlers that drive them   *)
(* (backend/main.py).                                                      *)
(*                                                                         *)
(* Numbers.  Confidences are held in tenths (8 stands for 0.8), the clock  *)
(* in seconds and advanced one half-life at a time, so every decay factor  *)
(* 0.5 ** (age / DECAY_HALF_LIFE) is an exact power of two.  Scores are    *)
(* exact rationals [n, d] in lowest terms: the model follows the real      *)
(* arithmetic of the code, not the rounding of binary floating point, with *)
(* one exception: a decay factor of 1075 half-lives or more is 0.0, as the *)
(* power underflows there.  The clock can also jump by an idle period long *)
(* enough for that; between two jumps it advances by half-lives.           *)
(*                                                                         *)
(* Python values that can be of several types are tagged records:          *)
(* [type |-> "str", val |-> "sad"], [type |-> "float", val |-> 8],         *)
(* [type |-> "NoneType", val |-> 0].                                       *)
(***************************************************************************)
EXTENDS Integers, Sequences, FiniteSets, TLC

VARIABLES
    window_size,      \* EmotionFusion.window_size (deque maxlen)
    audio_readings,   \* EmotionFusion.audio_readings
    video_readings,   \* EmotionFusion.video_readings
    now,              \* time.time(), in seconds
    history,          \* readings inserted since construction or the last reset
    last,             \* the last step taken: operation, arguments, outcome
    word_segments,    \* align_emotions: its first argument
    emotion_frames,   \* align_emotions: its second argument
    results,          \* align_emotions: what the call returned or raised
    tagged_text,      \* format_tagged_text(results): the string returned
    chat_engine,      \* main.chat_engine is not None
    sessions,         \* main.sessions: session id -> messages, emotion_history
    tasks,            \* /api/chat handlers: request number -> where the handler is
    ws,               \* the /ws/chat handler: connection, session_id, position
    own,              \* session id -> the readings submitted under that session
    received          \* requests and WebSocket messages received so far

fusion_vars == <<window_size, audio_readings, video_readings, now, history, last>>
aligner_vars == <<word_segments, emotion_frames, results, tagged_text>>
server_vars == <<chat_engine, sessions, tasks, ws, own, received>>
vars == <<fusion_vars, aligner_vars, server_vars>>

----------------------------------------------------------------------------
(* Bounds of the model *)

WindowSize == 2     \* capacity the engine under check is constructed with
MaxUpdates == 3     \* readings inserted between two resets
MaxTicks == 1       \* half-lives the clock may advance
MaxWords == 2       \* word segments of one align_emotions call
MaxFrames == 2      \* emotion frames of one align_emotions call
MaxRequests == 2    \* requests and WebSocket messages the server receives
WideWindow == 4     \* window_size of the engine that hears four labels
MaxWideUpdates == 5 \* update_audio / update_video calls on that engine
MaxIdles == 1       \* idle periods the engine sits through

----------------------------------------------------------------------------
(* Python values *)

PyStr(s) == [type |-> "str", val |-> s]
PyNum(n) == [type |-> "float", val |-> n]
PyNone == [type |-> "NoneType", val |-> 0]
PyDict(f) == [type |-> "dict", val |-> f]

(* the int 10 ** 400, too large for a float *)
PyHuge == [type |-> "int", val |-> 0]

(* float(v): numbers are kept; of the strings the model feeds in, "0.5" and
   "1.0" parse (values in tenths) and every other raises ValueError; None and
   dicts raise TypeError; the one int the model feeds in is too large to
   convert and raises OverflowError *)
FloatOf(v) ==
    CASE v.type = "float" -> [ok |-> TRUE, val |-> v.val, exc |-> ""]
      [] v.type = "int" -> [ok |-> FALSE, val |-> 0, exc |-> "OverflowError"]
      [] v.type = "str" ->
            IF v.val = "0.5" THEN [ok |-> TRUE, val |-> 5, exc |-> ""]
            ELSE IF v.val = "1.0" THEN [ok |-> TRUE, val |-> 10, exc |-> ""]
            ELSE [ok |-> FALSE, val |-> 0, exc |-> "ValueError"]
      [] OTHER -> [ok |-> FALSE, val |-> 0, exc |-> "TypeError"]

(* str.lower() on the labels the model feeds in *)
Lower(s) ==
    CASE s = "HAPPY" -> "happy"
      [] s = "Sad" -> "sad"
      [] s = "Angry" -> "angry"
      [] s = "Fearful" -> "fearful"
      [] s = "BORED" -> "bored"
      [] OTHER -> s

(* Python truthiness of a tagged value *)
Truthy(v) ==
    CASE v.type = "NoneType" -> FALSE
      [] v.type = "str" -> v.val # ""
      [] v.type = "dict" -> DOMAIN v.val # {}
      [] OTHER -> v.val # 0

----------------------------------------------------------------------------
(* Exact rationals *)

RECURSIVE GCD(_, _)
GCD(a, b) == IF b = 0 THEN a ELSE GCD(b, a % b)

Rat(n, d) ==
    IF n = 0 THEN [n |-> 0, d |-> 1]
    ELSE LET g == GCD(n, d) IN [n |-> n \div g, d |-> d \div g]

Zero == Rat(0, 1)
One == Rat(1, 1)
RAdd(x, y) ==
    IF x.n = 0 THEN y
    ELSE IF y.n = 0 THEN x
    ELSE Rat(x.n * y.d + y.n * x.d, x.d * y.d)
RMul(x, y) ==
    IF x.n = 0 \/ y.n = 0 THEN Zero
    ELSE Rat(x.n * y.n, x.d * y.d)
RGt(x, y) == x.n * y.d > y.n * x.d

RECURSIVE Pow2(_)
Pow2(k) == IF k = 0 THEN 1 ELSE 2 * Pow2(k - 1)

Min(a, b) == IF a < b THEN a ELSE b
Max(a, b) == IF a > b THEN a ELSE b

----------------------------------------------------------------------------
(* emotion_fusion.py: constants *)

EMOTIONS == <<"happy", "sad", "angry", "neutral", "fearful", "disgusted", "surprised">>
EmotionSet == {EMOTIONS[i] : i \in 1..Len(EMOTIONS)}

(* voice and face weighted alike *)
MODALITY_WEIGHTS_Even == [audio |-> Rat(1, 2), video |-> Rat(1, 2)]

MODALITY_WEIGHTS == [audio |-> Rat(6, 10), video |-> Rat(4, 10)]
DECAY_HALF_LIFE == 10

(* 0.5 ** x is 0.0 from x = 1075 on: the smallest positive float is 2 ** -1074 *)
UnderflowHalfLives == 1075

(* an idle period: long enough for every reading made before it to weigh 0.0
   after it, whatever the clock showed within the periods before *)
IdleSeconds == 2 * UnderflowHalfLives * DECAY_HALF_LIFE

(* the half-lives the clock advanced since the last idle period *)
Span(t) == (t % IdleSeconds) \div DECAY_HALF_LIFE
DefaultWindowSize == 10
IncongruenceThreshold == Rat(3, 10)

(* a scan that keeps the last of the labels that tie for the maximum *)
RECURSIVE MaxScanLast(_, _, _)
MaxScanLast(scores, i, best) ==
    IF i > Len(EMOTIONS) THEN best
    ELSE MaxScanLast(scores, i + 1,
                     IF RGt(scores[best], scores[EMOTIONS[i]]) THEN best ELSE EMOTIONS[i])

ArgMaxFirst_Last(scores) == MaxScanLast(scores, 2, EMOTIONS[1])

(* max(scores, key=scores.get) over a dict built in EMOTIONS order: scan the
   labels in that order and keep the first one no later label strictly exceeds *)
RECURSIVE MaxScan(_, _, _)
MaxScan(scores, i, best) ==
    IF i > Len(EMOTIONS) THEN best
    ELSE MaxScan(scores, i + 1,
                 IF RGt(scores[EMOTIONS[i]], scores[best]) THEN EMOTIONS[i] ELSE best)

ArgMaxFirst(scores) == MaxScan(scores, 2, EMOTIONS[1])

(* dict.get(emotion, 0.0) *)
ScoreGet(scores, e) == IF e \in DOMAIN scores THEN scores[e] ELSE Zero

----------------------------------------------------------------------------
(* emotion_fusion.py: EmotionReading *)

(* a confidence held in tenths, as a number *)
Conf(c) == Rat(c, 10)

(* EmotionReading.__init__: min(max(confidence, 0.0), 1.0), timestamp = time.time() *)
EmotionReading(emotion, confidence, source, t) ==
    [emotion |-> emotion,
     confidence |-> Min(Max(confidence, 0), 10),
     source |-> source,
     timestamp |-> t]

(* EmotionReading.decayed_confidence: confidence * 0.5 ** (age / DECAY_HALF_LIFE).
   The clock moves in whole half-lives, so at time t a reading made since the
   last idle period has an age of at most Span(t) half-lives and its decayed
   confidence is a whole number of units 1 / DecayUnits(t); a reading made
   before the idle period is UnderflowHalfLives old or older and its decay
   factor is 0.0.  decayed_units is that whole number. *)
DecayUnits(t) == 10 * Pow2(Span(t))

(* a confidence that does not decay with age *)
decayed_units_NoDecay(r, t) == r.confidence * Pow2(Span(t))

decayed_units(r, t) ==
    LET age == t - r.timestamp
    IN IF age \div DECAY_HALF_LIFE >= UnderflowHalfLives
       THEN 0
       ELSE r.confidence * Pow2(Span(t) - (age \div DECAY_HALF_LIFE))

(* a confidence returned as it was stored *)
decayed_confidence_Undecayed(r, t) == Conf(r.confidence)

decayed_confidence(r, t) == Rat(decayed_units(r, t), DecayUnits(t))

----------------------------------------------------------------------------
(* emotion_fusion.py: EmotionFusion *)

(* a full window that refuses the new reading instead of evicting the oldest *)
DequeAppend_DropNewest(q, x, maxlen) ==
    IF Len(q) >= maxlen THEN q ELSE Append(q, x)

(* deque(maxlen=n).append(x) *)
DequeAppend(q, x, maxlen) ==
    IF maxlen = 0 THEN <<>>
    ELSE IF Len(q) >= maxlen THEN Append(Tail(q), x)
    ELSE Append(q, x)

(* a normalisation that lower-cases and keeps whatever label it is given *)
normalize_label_Raw(s) == Lower(s)

(* update_audio / update_video, lines 64-66 and 71-73: emotion.lower(), and
   neutral for a label not in EMOTIONS *)
normalize_label(s) ==
    LET lowered == Lower(s)
    IN IF lowered \in EmotionSet THEN lowered ELSE "neutral"

(* update_audio / update_video: the outcome of one call on the window
   `readings`.  raised = "" when the call returns; emotion.lower() raises on a
   value that is no string, min/max raise on a confidence that is no number.
   inserted holds the EmotionReading the call constructed and appended. *)
update_modality(readings, maxlen, emotion, confidence, source, t) ==
    IF emotion.type # "str"
    THEN [raised |-> "AttributeError", readings |-> readings, inserted |-> <<>>]
    ELSE LET label == normalize_label(emotion.val)
         IN IF confidence.type # "float"
            THEN [raised |-> "TypeError", readings |-> readings, inserted |-> <<>>]
            ELSE LET r == EmotionReading(label, confidence.val, source, t)
                 IN [raised |-> "",
                     readings |-> DequeAppend(readings, r, maxlen),
                     inserted |-> <<r>>]

update_audio(readings, maxlen, emotion, confidence, t) ==
    update_modality(readings, maxlen, emotion, confidence, "audio", t)

update_video(readings, maxlen, emotion, confidence, t) ==
    update_modality(readings, maxlen, emotion, confidence, "video", t)

(* the loop of _aggregate_modality, lines 88-91: the sum of w over the readings
   labelled e, and over all readings, in units 1 / DecayUnits(t) *)
RECURSIVE WeightOf(_, _, _)
WeightOf(readings, e, t) ==
    IF readings = <<>> THEN 0
    ELSE LET r == Head(readings)
             rest == WeightOf(Tail(readings), e, t)
         IN IF r.emotion = e THEN decayed_units(r, t) + rest ELSE rest

RECURSIVE TotalWeight(_, _)
TotalWeight(readings, t) ==
    IF readings = <<>> THEN 0
    ELSE decayed_units(Head(readings), t) + TotalWeight(Tail(readings), t)

EmptyScores == [e \in {} |-> Zero]

(* scores left as raw decayed weights, never divided by total_weight *)
normalize_scores_Raw(readings, total_weight, t) ==
    [e \in EmotionSet |-> Rat(WeightOf(readings, e, t), DecayUnits(t))]

(* _aggregate_modality, lines 93-94: scores divided by total_weight when it is
   positive, left as they are (all 0.0) otherwise *)
normalize_scores(readings, total_weight, t) ==
    IF total_weight > 0
    THEN [e \in EmotionSet |-> Rat(WeightOf(readings, e, t), total_weight)]
    ELSE [e \in EmotionSet |-> Rat(WeightOf(readings, e, t), DecayUnits(t))]

aggregate_modality(readings, t) ==
    IF readings = <<>>
    THEN [emotion |-> "neutral", confidence |-> Zero, scores |-> EmptyScores]
    ELSE LET total_weight == TotalWeight(readings, t)
             scores == normalize_scores(readings, total_weight, t)
             dominant == ArgMaxFirst(scores)
         IN [emotion |-> dominant, confidence |-> scores[dominant], scores |-> scores]

(* the configured weights kept even when a window is empty *)
fusion_weights_Fixed(audio, video) == MODALITY_WEIGHTS

(* the two configured weights taken for each other *)
fusion_weights_Swapped(audio, video) ==
    IF audio = <<>> THEN [audio |-> Zero, video |-> One]
    ELSE IF video = <<>> THEN [audio |-> One, video |-> Zero]
    ELSE [audio |-> MODALITY_WEIGHTS.video, video |-> MODALITY_WEIGHTS.audio]

(* get_fused_emotion, lines 123-142: the weights of the two modalities *)
fusion_weights(audio, video) ==
    IF audio = <<>> THEN [audio |-> Zero, video |-> One]
    ELSE IF video = <<>> THEN [audio |-> One, video |-> Zero]
    ELSE MODALITY_WEIGHTS

(* the flag raised on any two differing non-neutral labels *)
detect_incongruence_NoConfidence(audio_agg, video_agg) ==
    /\ audio_agg.emotion # "neutral"
    /\ video_agg.emotion # "neutral"
    /\ audio_agg.emotion # video_agg.emotion

(* get_fused_emotion, lines 154-160 *)
detect_incongruence(audio_agg, video_agg) ==
    /\ audio_agg.emotion # "neutral"
    /\ video_agg.emotion # "neutral"
    /\ audio_agg.emotion # video_agg.emotion
    /\ RGt(audio_agg.confidence, IncongruenceThreshold)
    /\ RGt(video_agg.confidence, IncongruenceThreshold)

get_fused_emotion(audio, video, t) ==
    LET audio_agg == aggregate_modality(audio, t)
        video_agg == aggregate_modality(video, t)
        w == fusion_weights(audio, video)
        fused_scores == [e \in EmotionSet |->
                            RAdd(RMul(ScoreGet(audio_agg.scores, e), w.audio),
                                 RMul(ScoreGet(video_agg.scores, e), w.video))]
        dominant == ArgMaxFirst(fused_scores)
        incongruence == detect_incongruence(audio_agg, video_agg)
    IN IF audio = <<>> /\ video = <<>>
       THEN [dominant |-> "neutral", confidence |-> Zero,
             audio |-> audio_agg, video |-> video_agg,
             fused_scores |-> [e \in EmotionSet |-> Zero],
             incongruence |-> FALSE]
       ELSE [dominant |-> dominant, confidence |-> fused_scores[dominant],
             audio |-> audio_agg, video |-> video_agg,
             fused_scores |-> fused_scores,
             incongruence |-> incongruence]

(* a reset that forgets the video window *)
reset_AudioOnly(audio, video) == [audio |-> <<>>, video |-> video]

(* reset: the two windows after the call *)
reset(audio, video) == [audio |-> <<>>, video |-> <<>>]

----------------------------------------------------------------------------
(* The fusion engine as a state machine: one engine of capacity WindowSize,
   driven by any caller. *)

NoRet == [none |-> TRUE]

(* the record of a step: the operation, its arguments, the exception it raised
   ("" when it returned), its return value, and the lengths of the two windows
   before it *)
Step(op, emotion, confidence, raised, ret) ==
    [op |-> op, emotion |-> emotion, confidence |-> confidence,
     raised |-> raised, ret |-> ret,
     before |-> <<Len(audio_readings), Len(video_readings)>>]

(* the (label, confidence) pairs callers pass to update_audio and update_video:
   recognised, upper-case, unrecognised and empty labels; confidences inside and
   outside [0, 1]; a label that is no string, a confidence that is no number *)
MalformedInputs ==
    { <<PyNone, PyNum(8)>>,
      <<PyStr("sad"), PyStr("high")>>,
      <<PyStr("sad"), PyNone>> }

AudioInputs ==
    { <<PyStr("sad"), PyNum(8)>>,
      <<PyStr("sad"), PyNum(-5)>>,
      <<PyStr("bored"), PyNum(15)>>,
      <<PyStr(""), PyNum(15)>> } \cup MalformedInputs

VideoInputs ==
    { <<PyStr("HAPPY"), PyNum(8)>>,
      <<PyStr("HAPPY"), PyNum(2)>>,
      <<PyStr("HAPPY"), PyNum(-5)>>,
      <<PyStr("bored"), PyNum(15)>> } \cup MalformedInputs

(* results before align_emotions is called.  Beside what the call returned
   (value) or raised, results records, for each segment the loop reached, its
   [start_value, end_value) and the indices of the frames matched to it. *)
NotCalled == [called |-> FALSE, raised |-> "", value |-> <<>>,
              spans |-> <<>>, matched |-> <<>>]
NotFormatted == [called |-> FALSE, value |-> <<>>]

(* the aligner is not used *)
AlignerIdle ==
    /\ word_segments = <<>>
    /\ emotion_frames = <<>>
    /\ results = NotCalled
    /\ tagged_text = NotFormatted

(* a dict with no key *)
EmptyMap == [k \in {} |-> NoRet]

(* no WebSocket handler runs.  session_id "" stands for None. *)
NoWs == [pc |-> "closed", session_id |-> "", req |-> 0,
         fused |-> NoRet, expected |-> NoRet, seen |-> <<>>,
         emo |-> <<PyNone, PyNone>>, at |-> 0]

(* no server runs *)
ServerIdle ==
    /\ chat_engine = FALSE
    /\ sessions = EmptyMap
    /\ tasks = EmptyMap
    /\ ws = NoWs
    /\ own = EmptyMap
    /\ received = 0

Init ==
    /\ AlignerIdle
    /\ ServerIdle
    /\ window_size = WindowSize
    /\ audio_readings = <<>>
    /\ video_readings = <<>>
    /\ now = 0
    /\ history = <<>>
    /\ last = Step("__init__", PyNone, PyNone, "", NoRet)

(* a caller passes one of inputs to update_audio, at most budget updates
   being made in all *)
UpdateAudioWith(inputs, budget) ==
    \E inp \in inputs :
        LET out == update_audio(audio_readings, window_size, inp[1], inp[2], now)
        IN /\ Len(history) < budget
           /\ audio_readings' = out.readings
           /\ history' = history \o out.inserted
           /\ last' = Step("update_audio", inp[1], inp[2], out.raised, NoRet)
           /\ UNCHANGED <<window_size, video_readings, now, aligner_vars, server_vars>>

UpdateAudio == UpdateAudioWith(AudioInputs, MaxUpdates)

(* a caller passes one of inputs to update_video, at most budget updates
   being made in all *)
UpdateVideoWith(inputs, budget) ==
    \E inp \in inputs :
        LET out == update_video(video_readings, window_size, inp[1], inp[2], now)
        IN /\ Len(history) < budget
           /\ video_readings' = out.readings
           /\ history' = history \o out.inserted
           /\ last' = Step("update_video", inp[1], inp[2], out.raised, NoRet)
           /\ UNCHANGED <<window_size, audio_readings, now, aligner_vars, server_vars>>

UpdateVideo == UpdateVideoWith(VideoInputs, MaxUpdates)

(* a get_fused_emotion that consumes the readings it aggregated *)
GetFusedEmotion_Consuming ==
    /\ last' = Step("get_fused_emotion", PyNone, PyNone, "",
                    get_fused_emotion(audio_readings, video_readings, now))
    /\ audio_readings' = <<>>
    /\ video_readings' = <<>>
    /\ UNCHANGED <<window_size, now, history, aligner_vars, server_vars>>

GetFusedEmotion ==
    /\ last' = Step("get_fused_emotion", PyNone, PyNone, "",
                    get_fused_emotion(audio_readings, video_readings, now))
    /\ UNCHANGED <<window_size, audio_readings, video_readings, now, history, aligner_vars, server_vars>>

Reset ==
    LET out == reset(audio_readings, video_readings)
    IN /\ audio_readings' = out.audio
       /\ video_readings' = out.video
       /\ history' = <<>>
       /\ last' = Step("reset", PyNone, PyNone, "", NoRet)
       /\ UNCHANGED <<window_size, now, aligner_vars, server_vars>>

(* the clock advances one half-life *)
Tick ==
    /\ now % IdleSeconds < MaxTicks * DECAY_HALF_LIFE
    /\ now' = now + DECAY_HALF_LIFE
    /\ last' = Step("tick", PyNone, PyNone, "", NoRet)
    /\ UNCHANGED <<window_size, audio_readings, video_readings, history, aligner_vars, server_vars>>

(* nothing calls the engine for an idle period *)
Idle ==
    /\ now < MaxIdles * IdleSeconds
    /\ now' = now + IdleSeconds
    /\ last' = Step("idle", PyNone, PyNone, "", NoRet)
    /\ UNCHANGED <<window_size, audio_readings, video_readings, history, aligner_vars, server_vars>>

Next ==
    \/ UpdateAudio
    \/ UpdateVideo
    \/ GetFusedEmotion
    \/ Reset
    \/ Tick

Spec == Init /\ [][Next]_vars

----------------------------------------------------------------------------
(* Properties of the fusion engine *)

Inserted(source) == SelectSeq(history, LAMBDA r : r.source = source)
LastN(s, n) == SubSeq(s, Len(s) - n + 1, Len(s))
Returned == last.op = "get_fused_emotion"

(* C1: each window holds exactly the min(n, capacity) most recently inserted
   readings of its modality, in insertion order, whatever their confidence or
   age; its length never exceeds the capacity. *)
C1_WindowIsNewestSuffix ==
    /\ Len(audio_readings) <= window_size
    /\ Len(video_readings) <= window_size
    /\ audio_readings = LastN(Inserted("audio"), Min(Len(Inserted("audio")), window_size))
    /\ video_readings = LastN(Inserted("video"), Min(Len(Inserted("video")), window_size))

(* an overflow has evicted the oldest reading although it carried a higher
   confidence than the oldest reading that stayed *)
C1_Witness ==
    /\ Len(Inserted("audio")) = window_size + 1
    /\ Len(audio_readings) = window_size
    /\ Inserted("audio")[1].confidence > audio_readings[1].confidence

(* An engine whose windows are wide enough to hold four different labels, so
   that a dominant label's normalized share can be 0.3 and below: the audio
   labels, one of them unrecognised, come with confidences 0.3 and 0.2; the
   video label agrees with an audio label or with none. *)
WideAudioInputs ==
    { <<PyStr("sad"), PyNum(3)>>, <<PyStr("angry"), PyNum(3)>>,
      <<PyStr("fearful"), PyNum(2)>>, <<PyStr("bored"), PyNum(2)>> }

WideVideoInputs ==
    { <<PyStr("HAPPY"), PyNum(8)>>, <<PyStr("sad"), PyNum(8)>> }

InitWide ==
    /\ AlignerIdle
    /\ ServerIdle
    /\ window_size = WideWindow
    /\ audio_readings = <<>>
    /\ video_readings = <<>>
    /\ now = 0
    /\ history = <<>>
    /\ last = Step("__init__", PyNone, PyNone, "", NoRet)

WideUpdateAudio == UpdateAudioWith(WideAudioInputs, MaxWideUpdates)
WideUpdateVideo == UpdateVideoWith(WideVideoInputs, MaxWideUpdates)

NextWide ==
    \/ WideUpdateAudio
    \/ WideUpdateVideo
    \/ GetFusedEmotion

SpecWide == InitWide /\ [][NextWide]_vars

(* C2: with at least one window non-empty, the returned incongruence flag is
   true exactly when both aggregates' dominant emotions are non-neutral and
   differ and both aggregates' confidences are strictly above 0.3; it is false
   whenever a window is empty. *)
C2_IncongruenceIff ==
    (Returned /\ (audio_readings # <<>> \/ video_readings # <<>>)) =>
        LET a == aggregate_modality(audio_readings, now)
            v == aggregate_modality(video_readings, now)
        IN /\ last.ret.incongruence <=>
                  /\ a.emotion # "neutral"
                  /\ v.emotion # "neutral"
                  /\ a.emotion # v.emotion
                  /\ 10 * a.confidence.n > 3 * a.confidence.d
                  /\ 10 * v.confidence.n > 3 * v.confidence.d
           /\ (audio_readings = <<>> \/ video_readings = <<>>) => ~last.ret.incongruence

(* the audio window holds four labels and its dominant one has share exactly
   0.3; the video aggregate is sure of another label; the flag is false *)
C2_Witness ==
    /\ Returned
    /\ ~last.ret.incongruence
    /\ last.ret.audio.emotion # "neutral"
    /\ last.ret.audio.confidence = Rat(3, 10)
    /\ last.ret.video.emotion \notin {"neutral", last.ret.audio.emotion}
    /\ RGt(last.ret.video.confidence, IncongruenceThreshold)

(* The scenario of C3: on an engine holding nothing else, update_audio("sad", a)
   then update_video("happy", v), then get_fused_emotion.  a and v are the stored
   confidences in tenths; clamping to [0, 1] keeps a supplied value on its side
   of 0.3. *)
C3_Scenario ==
    /\ Returned
    /\ Len(history) = 2
    /\ history[1].source = "audio" /\ history[1].emotion = "sad"
    /\ history[2].source = "video" /\ history[2].emotion = "happy"

(* C3 as stated: incongruence is reported when both supplied confidences exceed
   0.3 and is not reported when either is below 0.3. *)
C3_AsStated ==
    C3_Scenario =>
        LET a == history[1].confidence
            v == history[2].confidence
        IN /\ (a > 3 /\ v > 3) => last.ret.incongruence
           /\ (a < 3 \/ v < 3) => ~last.ret.incongruence

(* C3, amended: in that scenario incongruence is reported exactly when both
   stored confidences are positive; a single reading's aggregate confidence is its
   label's share of the window, 1.0, whatever confidence was supplied. *)
C3_IncongruentIffBothPositive ==
    C3_Scenario =>
        (last.ret.incongruence <=> (history[1].confidence > 0 /\ history[2].confidence > 0))

C3_Witness ==
    /\ C3_Scenario
    /\ history[1].confidence = 8
    /\ history[2].confidence = 2
    /\ last.ret.incongruence

(* C4: with exactly one window non-empty the fused label, confidence and scores
   are those of the non-empty modality's aggregate, and the empty modality's
   aggregate is neutral with confidence 0.0 and no scores. *)
IsEmptyAggregate(agg) ==
    /\ agg.emotion = "neutral"
    /\ agg.confidence = Zero
    /\ DOMAIN agg.scores = {}

FusedIs(f, agg) ==
    /\ f.dominant = agg.emotion
    /\ f.confidence = agg.confidence
    /\ \A e \in EmotionSet : f.fused_scores[e] = agg.scores[e]

C4_SingleModalityFullWeight ==
    Returned =>
        /\ (audio_readings # <<>> /\ video_readings = <<>>) =>
              /\ FusedIs(last.ret, aggregate_modality(audio_readings, now))
              /\ last.ret.audio = aggregate_modality(audio_readings, now)
              /\ IsEmptyAggregate(last.ret.video)
        /\ (audio_readings = <<>> /\ video_readings # <<>>) =>
              /\ FusedIs(last.ret, aggregate_modality(video_readings, now))
              /\ last.ret.video = aggregate_modality(video_readings, now)
              /\ IsEmptyAggregate(last.ret.audio)

C4_Witness ==
    /\ Returned
    /\ Len(audio_readings) = 2
    /\ video_readings = <<>>
    /\ last.ret.dominant = "sad"
    /\ last.ret.confidence # One

(* C5: reset empties both windows, the fused state is then neutral, 0.0,
   all-zero and not incongruent, and from then on the engine is the engine a
   fresh one becomes under the updates issued since the reset. *)
RECURSIVE Replay(_, _, _)
Replay(readings, source, maxlen) ==
    IF readings = <<>> THEN <<>>
    ELSE LET r == readings[Len(readings)]
             sofar == Replay(SubSeq(readings, 1, Len(readings) - 1), source, maxlen)
         IN IF r.source # source THEN sofar
            ELSE IF Len(sofar) >= maxlen THEN Append(Tail(sofar), r)
            ELSE Append(sofar, r)

NeutralFusionState(f) ==
    /\ f.dominant = "neutral"
    /\ f.confidence = Zero
    /\ \A e \in EmotionSet : f.fused_scores[e] = Zero
    /\ DOMAIN f.fused_scores = EmotionSet
    /\ ~f.incongruence

C5_ResetIsFresh ==
    /\ last.op = "reset" =>
          /\ audio_readings = <<>>
          /\ video_readings = <<>>
    /\ (Returned /\ history = <<>>) => NeutralFusionState(last.ret)
    /\ audio_readings = Replay(history, "audio", window_size)
    /\ video_readings = Replay(history, "video", window_size)
    /\ Returned =>
          last.ret = get_fused_emotion(Replay(history, "audio", window_size),
                                       Replay(history, "video", window_size), now)

(* a reset that cleared readings from both windows *)
C5_Witness ==
    /\ last.op = "reset"
    /\ last.before[1] > 0
    /\ last.before[2] > 0
    /\ audio_readings = <<>>
    /\ video_readings = <<>>

(* the window update_audio / update_video appends to *)
WindowOf(op) == IF op = "update_audio" THEN audio_readings ELSE video_readings
BeforeOf(step) == IF step.op = "update_audio" THEN step.before[1] ELSE step.before[2]

(* C8, as stated: update_audio and update_video never raise on malformed
   input.  Whatever the label (absent, empty, unrecognised) and whatever the
   confidence (missing, non-numeric), the call returns, and it has appended
   exactly one reading whose label is canonical (neutral when the label given
   is no recognised label) and whose confidence is within [0, 1]. *)
C8_AsStated ==
    last.op \in {"update_audio", "update_video"} =>
        LET w == WindowOf(last.op)
        IN /\ last.raised = ""
           /\ Len(w) = Min(BeforeOf(last) + 1, window_size)
           /\ w[Len(w)].emotion \in EmotionSet
           /\ w[Len(w)].confidence \in 0..10
           /\ (last.emotion.type # "str" \/ Lower(last.emotion.val) \notin EmotionSet)
                  => w[Len(w)].emotion = "neutral"

----------------------------------------------------------------------------
(* emotion_aligner.py.  Segments and frames are dicts: records whose fields
   may be absent and whose values are tagged Python values.  Times and weights
   are in tenths. *)

(* _get_attr on a dict: obj.get(name, default) *)
get_attr(obj, name, default) == IF name \in DOMAIN obj THEN obj[name] ELSE default

normalize_emotion_CaseSensitive(emotion) ==
    IF ~Truthy(emotion) THEN "neutral"
    ELSE IF emotion.type # "str" THEN "neutral"
    ELSE IF emotion.val \in EmotionSet THEN emotion.val ELSE "neutral"

(* _normalize_emotion: neutral for a falsy value, else str(emotion).lower() when
   that is in EMOTIONS, else neutral *)
normalize_emotion(emotion) ==
    IF ~Truthy(emotion) THEN "neutral"
    ELSE IF emotion.type # "str" THEN "neutral"
    ELSE LET normalized == Lower(emotion.val)
         IN IF normalized \in EmotionSet THEN normalized ELSE "neutral"

(* _aggregate_frames, lines 43-46 and 54-57: the weight of a frame *)
frame_weight(frame) ==
    LET given == get_attr(frame, "confidence", PyNum(10))
        weight == IF given.type = "NoneType" THEN PyNum(10) ELSE given
    IN FloatOf(weight)

(* a loop that counts a single label once, whatever the frame's confidence *)
frame_contribution_UnitLabel(frame, w) ==
    LET frame_scores == get_attr(frame, "scores", PyNone)
    IN IF frame_scores.type = "dict" /\ DOMAIN frame_scores.val # {}
       THEN [e \in EmotionSet |->
                (IF e \in DOMAIN frame_scores.val THEN frame_scores.val[e] ELSE 0) * w]
       ELSE LET emotion == normalize_emotion(get_attr(frame, "emotion", PyNone))
            IN [e \in EmotionSet |-> IF e = emotion THEN 10 * 10 ELSE 0]

(* _aggregate_frames, lines 40-59: what one frame adds to scores (hundredths)
   and to total_weight (tenths), given its weight w in tenths *)
frame_contribution(frame, w) ==
    LET frame_scores == get_attr(frame, "scores", PyNone)
    IN IF frame_scores.type = "dict" /\ DOMAIN frame_scores.val # {}
       THEN [e \in EmotionSet |->
                (IF e \in DOMAIN frame_scores.val THEN frame_scores.val[e] ELSE 0) * w]
       ELSE LET emotion == normalize_emotion(get_attr(frame, "emotion", PyNone))
            IN [e \in EmotionSet |-> IF e = emotion THEN 10 * w ELSE 0]

(* a loop in which each frame replaces what the frames before it added *)
RECURSIVE AccumulateFrames_LastWins(_, _, _)
AccumulateFrames_LastWins(frames, i, acc) ==
    IF i > Len(frames) THEN acc
    ELSE LET w == frame_weight(frames[i])
         IN IF ~w.ok THEN [acc EXCEPT !.raised = w.exc]
            ELSE LET add == frame_contribution(frames[i], w.val)
                 IN AccumulateFrames_LastWins(frames, i + 1,
                        [raised |-> "",
                         scores |-> [e \in EmotionSet |-> add[e]],
                         total_weight |-> w.val])

(* the loop of _aggregate_frames over frames[i..], from the accumulators acc;
   it stops at the first frame whose weight float() rejects *)
RECURSIVE AccumulateFrames(_, _, _)
AccumulateFrames(frames, i, acc) ==
    IF i > Len(frames) THEN acc
    ELSE LET w == frame_weight(frames[i])
         IN IF ~w.ok THEN [acc EXCEPT !.raised = w.exc]
            ELSE LET add == frame_contribution(frames[i], w.val)
                 IN AccumulateFrames(frames, i + 1,
                        [raised |-> "",
                         scores |-> [e \in EmotionSet |-> acc.scores[e] + add[e]],
                         total_weight |-> acc.total_weight + w.val])

(* an aggregation that answers "no frame" and "no weight" with a mapping of
   zeros for the seven labels instead of the empty mapping *)
aggregate_frames_ZeroScores(frames) ==
    LET acc == AccumulateFrames(frames, 1,
                   [raised |-> "", scores |-> [e \in EmotionSet |-> 0], total_weight |-> 0])
        zeros == [e \in EmotionSet |-> Zero]
    IN IF acc.raised # ""
       THEN [raised |-> acc.raised, emotion |-> "neutral", confidence |-> Zero,
             scores |-> zeros]
       ELSE IF acc.total_weight <= 0
       THEN [raised |-> "", emotion |-> "neutral", confidence |-> Zero, scores |-> zeros]
       ELSE LET scores == [e \in EmotionSet |-> Rat(acc.scores[e], 10 * acc.total_weight)]
                dominant == ArgMaxFirst(scores)
            IN IF ~RGt(scores[dominant], Zero)
               THEN [raised |-> "", emotion |-> "neutral", confidence |-> Zero,
                     scores |-> scores]
               ELSE [raised |-> "", emotion |-> dominant,
                     confidence |-> scores[dominant], scores |-> scores]

(* _aggregate_frames: [raised, emotion, confidence, scores] *)
aggregate_frames(frames) ==
    IF frames = <<>>
    THEN [raised |-> "", emotion |-> "neutral", confidence |-> Zero, scores |-> EmptyScores]
    ELSE LET acc == AccumulateFrames(frames, 1,
                        [raised |-> "", scores |-> [e \in EmotionSet |-> 0], total_weight |-> 0])
         IN IF acc.raised # ""
            THEN [raised |-> acc.raised, emotion |-> "neutral", confidence |-> Zero,
                  scores |-> EmptyScores]
            ELSE IF acc.total_weight <= 0
            THEN [raised |-> "", emotion |-> "neutral", confidence |-> Zero,
                  scores |-> EmptyScores]
            ELSE LET scores == [e \in EmotionSet |-> Rat(acc.scores[e], 10 * acc.total_weight)]
                     dominant == ArgMaxFirst(scores)
                 IN IF ~RGt(scores[dominant], Zero)
                    THEN [raised |-> "", emotion |-> "neutral", confidence |-> Zero,
                          scores |-> scores]
                    ELSE [raised |-> "", emotion |-> dominant,
                          confidence |-> scores[dominant], scores |-> scores]

(* a closed interval: start <= ts <= end *)
frame_in_range_Closed(frame, start, end) ==
    LET timestamp == get_attr(frame, "timestamp", PyNone)
    IN IF timestamp.type = "NoneType" THEN FALSE
       ELSE LET ts == FloatOf(timestamp)
            IN IF ~ts.ok THEN FALSE
               ELSE start <= ts.val /\ ts.val <= end

(* an interval open at its start and closed at its end: start < ts <= end *)
frame_in_range_OpenStart(frame, start, end) ==
    LET timestamp == get_attr(frame, "timestamp", PyNone)
    IN IF timestamp.type = "NoneType" THEN FALSE
       ELSE LET ts == FloatOf(timestamp)
            IN IF ~ts.ok THEN FALSE
               ELSE start < ts.val /\ ts.val <= end

(* _frame_in_range *)
frame_in_range(frame, start, end) ==
    LET timestamp == get_attr(frame, "timestamp", PyNone)
    IN IF timestamp.type = "NoneType" THEN FALSE
       ELSE LET ts == FloatOf(timestamp)
            IN IF ~ts.ok THEN FALSE
               ELSE start <= ts.val /\ ts.val < end

(* align_emotions, lines 101-112: the bounds of a segment *)
segment_start(segment) ==
    LET start == FloatOf(get_attr(segment, "start", PyNum(0)))
    IN IF start.ok THEN start.val ELSE 0

segment_end(segment) ==
    LET end == FloatOf(get_attr(segment, "end", PyNum(0)))
    IN IF end.ok THEN end.val ELSE segment_start(segment)

(* except (TypeError, ValueError): the exception float() raised, when the
   clause does not catch it; "" otherwise *)
Uncaught(parsed) == IF parsed.exc \in {"TypeError", "ValueError"} THEN "" ELSE parsed.exc

(* _frame_in_range, lines 78-81: the exception that leaves the function *)
frame_raises(frame) ==
    LET timestamp == get_attr(frame, "timestamp", PyNone)
    IN IF timestamp.type = "NoneType" THEN "" ELSE Uncaught(FloatOf(timestamp))

(* align_emotions, lines 104-112: the exception that leaves the two try blocks *)
segment_raises(segment) ==
    LET start == Uncaught(FloatOf(get_attr(segment, "start", PyNum(0))))
    IN IF start # "" THEN start
       ELSE Uncaught(FloatOf(get_attr(segment, "end", PyNum(0))))

(* align_emotions, lines 114-116: the exception of the first frame, in order,
   whose _frame_in_range raises *)
RECURSIVE matching_raises(_, _)
matching_raises(frames, j) ==
    IF j > Len(frames) THEN ""
    ELSE IF frame_raises(frames[j]) # "" THEN frame_raises(frames[j])
    ELSE matching_raises(frames, j + 1)

(* align_emotions, lines 114-116 *)
matched_indices(frames, start_value, end_value) ==
    {j \in 1..Len(frames) : frame_in_range(frames[j], start_value, end_value)}

matched_frames(frames, start_value, end_value) ==
    SelectSeq(frames, LAMBDA frame : frame_in_range(frame, start_value, end_value))

(* align_emotions, lines 97-99 and 120: str(word), "" for None *)
segment_word(segment) ==
    LET word == get_attr(segment, "word", PyStr(""))
    IN IF word.type = "NoneType" THEN "" ELSE word.val

(* the loop of align_emotions over segments[i..]; an exception that float()
   raises past the except clauses, or that _aggregate_frames raises, leaves
   the function *)
RECURSIVE AlignFrom(_, _, _, _)
AlignFrom(segments, frames, i, acc) ==
    IF i > Len(segments) THEN acc
    ELSE IF segment_raises(segments[i]) # ""
    THEN [acc EXCEPT !.raised = segment_raises(segments[i]), !.value = <<>>]
    ELSE IF matching_raises(frames, 1) # ""
    THEN [acc EXCEPT !.raised = matching_raises(frames, 1), !.value = <<>>]
    ELSE LET start_value == segment_start(segments[i])
             end_value == segment_end(segments[i])
             agg == aggregate_frames(matched_frames(frames, start_value, end_value))
             spans == Append(acc.spans, <<start_value, end_value>>)
             matched == Append(acc.matched, matched_indices(frames, start_value, end_value))
         IN IF agg.raised # ""
            THEN [called |-> TRUE, raised |-> agg.raised, value |-> <<>>,
                  spans |-> spans, matched |-> matched]
            ELSE AlignFrom(segments, frames, i + 1,
                     [called |-> TRUE, raised |-> "",
                      value |-> Append(acc.value,
                                   [word |-> segment_word(segments[i]),
                                    start |-> start_value,
                                    end |-> end_value,
                                    emotion |-> agg.emotion,
                                    confidence |-> agg.confidence,
                                    scores |-> agg.scores]),
                      spans |-> spans, matched |-> matched])

align_emotions(segments, frames) ==
    AlignFrom(segments, frames, 1,
              [called |-> TRUE, raised |-> "", value |-> <<>>,
               spans |-> <<>>, matched |-> <<>>])

(* A string built by format_tagged_text is a sequence of pieces: a tag, a
   word, or the space " " that str.join puts between two parts. *)

(* " ".join(parts), each part a sequence of pieces *)
RECURSIVE SpaceJoin(_)
SpaceJoin(parts) ==
    IF parts = <<>> THEN <<>>
    ELSE IF Len(parts) = 1 THEN parts[1]
    ELSE parts[1] \o <<" ">> \o SpaceJoin(Tail(parts))

(* a run that wraps only its last word *)
render_run_LastWord(emotion, words) ==
    <<"<" \o emotion \o ">", words[Len(words)], "</" \o emotion \o ">">>

(* format_tagged_text, lines 146 and 151: one run,
   f"<{current_emotion}>{' '.join(current_words)}</{current_emotion}>" *)
render_run(emotion, words) ==
    <<"<" \o emotion \o ">">>
        \o SpaceJoin([k \in 1..Len(words) |-> <<words[k]>>])
        \o <<"</" \o emotion \o ">">>

(* a loop that closes the run after every word *)
RECURSIVE FormatFrom_RunPerWord(_, _, _, _, _)
FormatFrom_RunPerWord(word_emotions, i, current_emotion, current_words, segments) ==
    IF i > Len(word_emotions)
    THEN SpaceJoin(Append(segments, render_run(current_emotion, current_words)))
    ELSE FormatFrom_RunPerWord(word_emotions, i + 1, word_emotions[i].emotion,
                               <<word_emotions[i].word>>,
                               Append(segments, render_run(current_emotion, current_words)))

(* the loop of format_tagged_text over word_emotions[i..], lines 141-152;
   segments is the list of runs rendered so far *)
RECURSIVE FormatFrom(_, _, _, _, _)
FormatFrom(word_emotions, i, current_emotion, current_words, segments) ==
    IF i > Len(word_emotions)
    THEN SpaceJoin(Append(segments, render_run(current_emotion, current_words)))
    ELSE IF word_emotions[i].emotion = current_emotion
    THEN FormatFrom(word_emotions, i + 1, current_emotion,
                    Append(current_words, word_emotions[i].word), segments)
    ELSE FormatFrom(word_emotions, i + 1, word_emotions[i].emotion,
                    <<word_emotions[i].word>>,
                    Append(segments, render_run(current_emotion, current_words)))

(* format_tagged_text: the returned string as its pieces; "" is the empty
   sequence *)
format_tagged_text(word_emotions) ==
    IF word_emotions = <<>> THEN <<>>
    ELSE FormatFrom(word_emotions, 2, word_emotions[1].emotion,
                    <<word_emotions[1].word>>, <<>>)

----------------------------------------------------------------------------
(* The aligner as a state machine: one call of align_emotions on inputs drawn
   from the sets below, then format_tagged_text on what it returned. *)

SeqsUpTo(S, n) == UNION {[1..k -> S] : k \in 0..n}

(* word segments: two contiguous words, a zero-length word, a start and an end
   that float() rejects *)
SegmentInputs ==
    { [word |-> PyStr("hi"), start |-> PyNum(0), end |-> PyNum(10)],
      [word |-> PyStr("there"), start |-> PyNum(10), end |-> PyNum(20)],
      [word |-> PyStr("um"), start |-> PyNum(10), end |-> PyNum(10)],
      [word |-> PyStr("so"), start |-> PyStr("soon"), end |-> PyStr("1.0")],
      [word |-> PyNone, start |-> PyNum(5), end |-> PyNone] }

(* emotion frames: timestamps on and between the word boundaries, missing and
   unparseable; single labels and score distributions, one with two labels
   that tie and one with no recognised label; confidences present, absent,
   None, parseable and unparseable *)
FrameInputs ==
    { [timestamp |-> PyNum(0), emotion |-> PyStr("sad"), confidence |-> PyNum(8)],
      [timestamp |-> PyNum(10), emotion |-> PyStr("HAPPY"), confidence |-> PyStr("0.5")],
      [timestamp |-> PyNum(5), confidence |-> PyNum(10),
       scores |-> PyDict([sad |-> 7, angry |-> 7, bored |-> 9])],
      [timestamp |-> PyNum(15), scores |-> PyDict([bored |-> 9])],
      [timestamp |-> PyNum(5), emotion |-> PyStr("bored")],
      [timestamp |-> PyNum(15), emotion |-> PyStr("sad"), confidence |-> PyNone],
      [timestamp |-> PyNum(5), emotion |-> PyStr("sad"), confidence |-> PyStr("high")],
      [timestamp |-> PyNum(15), confidence |-> PyStr("high"),
       scores |-> PyDict([angry |-> 10])],
      [timestamp |-> PyStr("late"), emotion |-> PyStr("angry"), confidence |-> PyNum(8)],
      [emotion |-> PyStr("angry"), confidence |-> PyNum(8)],
      [timestamp |-> PyNum(5), emotion |-> PyNone, confidence |-> PyNum(0)] }

(* the fusion engine is constructed and not used *)
FusionIdle ==
    /\ window_size = WindowSize
    /\ audio_readings = <<>>
    /\ video_readings = <<>>
    /\ now = 0
    /\ history = <<>>
    /\ last = Step("__init__", PyNone, PyNone, "", NoRet)

InitAlign ==
    /\ FusionIdle
    /\ ServerIdle
    /\ word_segments \in SeqsUpTo(SegmentInputs, MaxWords)
    /\ emotion_frames \in SeqsUpTo(FrameInputs, MaxFrames)
    /\ results = NotCalled
    /\ tagged_text = NotFormatted

AlignEmotions ==
    /\ results' = align_emotions(word_segments, emotion_frames)
    /\ tagged_text' = NotFormatted
    /\ UNCHANGED <<word_segments, emotion_frames, fusion_vars, server_vars>>

FormatTaggedText ==
    /\ results.called
    /\ results.raised = ""
    /\ tagged_text' = [called |-> TRUE, value |-> format_tagged_text(results.value)]
    /\ UNCHANGED <<word_segments, emotion_frames, results, fusion_vars, server_vars>>

NextAlign ==
    \/ AlignEmotions
    \/ FormatTaggedText

SpecAlign == InitAlign /\ [][NextAlign]_vars

----------------------------------------------------------------------------
(* Properties of the aligner *)

HasParseableTimestamp(frame) ==
    /\ "timestamp" \in DOMAIN frame
    /\ FloatOf(frame.timestamp).ok

TimestampOf(frame) == FloatOf(frame.timestamp).val

(* the confidence of a frame is absent, None or not a number float() accepts *)
HasInvalidConfidence(frame) ==
    \/ "confidence" \notin DOMAIN frame
    \/ frame.confidence.type = "NoneType"
    \/ ~FloatOf(frame.confidence).ok

(* C9: align_emotions never raises on a matched frame whose confidence is
   absent, None or unparseable; the frame counts with weight 1.0, so a word whose
   only matched frame is such a single-label frame gets that label's share 1.0. *)
C9_AsStated ==
    results.called =>
        /\ results.raised = ""
        /\ \A i \in 1..Len(results.value) :
              \A j \in 1..Len(emotion_frames) :
                  (results.matched[i] = {j}
                     /\ HasInvalidConfidence(emotion_frames[j])
                     /\ "scores" \notin DOMAIN emotion_frames[j])
                  => results.value[i].confidence = One

(* C10: a frame with a parseable timestamp t is matched to the word [start, end)
   exactly when start <= t < end. *)
C10_HalfOpenInterval ==
    \A i \in 1..Len(results.matched) :
        \A j \in 1..Len(emotion_frames) :
            HasParseableTimestamp(emotion_frames[j]) =>
                (j \in results.matched[i] <=>
                    /\ results.spans[i][1] <= TimestampOf(emotion_frames[j])
                    /\ TimestampOf(emotion_frames[j]) < results.spans[i][2])

(* one word has a frame exactly at its start, which is matched to it, and a
   frame exactly at its end, which is not; a zero-length word has a frame at its
   start and end, and no frame matched *)
C10_Witness ==
    /\ results.called
    /\ \E i \in 1..Len(results.matched) :
          \E j, k \in 1..Len(emotion_frames) :
              /\ results.spans[i][1] < results.spans[i][2]
              /\ HasParseableTimestamp(emotion_frames[j])
              /\ HasParseableTimestamp(emotion_frames[k])
              /\ TimestampOf(emotion_frames[j]) = results.spans[i][1]
              /\ TimestampOf(emotion_frames[k]) = results.spans[i][2]
              /\ j \in results.matched[i]
              /\ k \notin results.matched[i]
    /\ \E i \in 1..Len(results.matched) :
          \E j \in 1..Len(emotion_frames) :
              /\ results.spans[i][1] = results.spans[i][2]
              /\ HasParseableTimestamp(emotion_frames[j])
              /\ TimestampOf(emotion_frames[j]) = results.spans[i][1]
              /\ results.matched[i] = {}

(* the sum of the weights of the frames matched to word i (tenths), over the
   frames j..; every matched frame has a weight float() accepts when
   align_emotions returned *)
RECURSIVE MatchedWeightFrom(_, _)
MatchedWeightFrom(i, j) ==
    IF j > Len(emotion_frames) THEN 0
    ELSE (IF j \in results.matched[i] THEN frame_weight(emotion_frames[j]).val ELSE 0)
         + MatchedWeightFrom(i, j + 1)

MatchedWeight(i) == MatchedWeightFrom(i, 1)

IsNeutralEmpty(word_emotion) ==
    /\ word_emotion.emotion = "neutral"
    /\ word_emotion.confidence = Zero
    /\ DOMAIN word_emotion.scores = {}

(* C11: on an empty word sequence align_emotions returns an empty list whatever
   the frames; and every word with no matched frame, or whose matched frames
   have total weight zero, gets neutral, confidence 0.0 and empty scores. *)
C11_NeutralWhenNoWeight ==
    results.called =>
        /\ word_segments = <<>> => (results.raised = "" /\ results.value = <<>>)
        /\ results.raised = "" =>
              \A i \in 1..Len(results.value) :
                  (results.matched[i] = {} \/ MatchedWeight(i) = 0)
                     => IsNeutralEmpty(results.value[i])

(* one word matched no frame, another matched a frame of weight zero *)
C11_Witness ==
    /\ results.called
    /\ results.raised = ""
    /\ \E i, k \in 1..Len(results.value) :
           /\ results.matched[i] = {}
           /\ results.matched[k] # {}
           /\ MatchedWeight(k) = 0

(* the segment's word is a string and its start and end are numbers *)
IsPlainSegment(segment) ==
    /\ {"word", "start", "end"} \subseteq DOMAIN segment
    /\ segment.word.type = "str"
    /\ segment.start.type = "float"
    /\ segment.end.type = "float"

(* C12, as stated: align_emotions returns exactly one WordEmotion per segment,
   in input order: as many outputs as segments, the i-th carrying the i-th
   segment's word, start and end, whether or not frames matched and whatever
   the order of the segments. *)
C12_AsStated ==
    results.called =>
        /\ results.raised = ""
        /\ Len(results.value) = Len(word_segments)
        /\ \A i \in 1..Len(word_segments) :
              /\ results.value[i].word = segment_word(word_segments[i])
              /\ results.value[i].start = segment_start(word_segments[i])
              /\ results.value[i].end = segment_end(word_segments[i])
              /\ IsPlainSegment(word_segments[i]) =>
                    /\ results.value[i].word = word_segments[i].word.val
                    /\ results.value[i].start = word_segments[i].start.val
                    /\ results.value[i].end = word_segments[i].end.val

(* what frame adds to label e (hundredths): its score for e, or its whole
   weight when e is its label, times its weight *)
FrameLabelWeight(frame, e) ==
    LET w == frame_weight(frame).val
    IN IF "scores" \in DOMAIN frame /\ Truthy(frame.scores)
       THEN (IF e \in DOMAIN frame.scores.val THEN frame.scores.val[e] * w ELSE 0)
       ELSE IF normalize_emotion(get_attr(frame, "emotion", PyNone)) = e THEN 10 * w ELSE 0

(* the weighted sum for label e over the frames matched to word i *)
RECURSIVE LabelSumFrom(_, _, _)
LabelSumFrom(i, e, j) ==
    IF j > Len(emotion_frames) THEN 0
    ELSE (IF j \in results.matched[i] THEN FrameLabelWeight(emotion_frames[j], e) ELSE 0)
         + LabelSumFrom(i, e, j + 1)

(* the normalized scores of word i *)
NormalizedScores(i) ==
    [e \in EmotionSet |-> Rat(LabelSumFrom(i, e, 1), 10 * MatchedWeight(i))]

(* the place of a label in the canonical order *)
OrderOf(e) == CHOOSE k \in 1..Len(EMOTIONS) : EMOTIONS[k] = e

(* e has the maximum score and is the earliest label that has it *)
IsFirstMax(scores, e) ==
    \A f \in EmotionSet :
        /\ ~RGt(scores[f], scores[e])
        /\ scores[f] = scores[e] => OrderOf(e) <= OrderOf(f)

(* C13, as stated: for a word whose matched frames have positive total weight,
   scores are the weighted sums over the total weight, the emotion is the
   label of maximum score, the earliest in canonical order among those that
   tie, and the confidence is that label's score. *)
C13_AsStated ==
    (results.called /\ results.raised = "") =>
        \A i \in 1..Len(results.value) :
            MatchedWeight(i) > 0 =>
                /\ results.value[i].scores = NormalizedScores(i)
                /\ IsFirstMax(NormalizedScores(i), results.value[i].emotion)
                /\ results.value[i].confidence = NormalizedScores(i)[results.value[i].emotion]

(* C13, amended: the same, when some label's score is positive; when none is,
   the word is neutral with confidence 0.0 and carries the scores. *)
C13_ArgMaxWhenPositive ==
    (results.called /\ results.raised = "") =>
        \A i \in 1..Len(results.value) :
            MatchedWeight(i) > 0 =>
                LET scores == NormalizedScores(i)
                    word_emotion == results.value[i]
                IN /\ word_emotion.scores = scores
                   /\ IF \E e \in EmotionSet : RGt(scores[e], Zero)
                      THEN /\ IsFirstMax(scores, word_emotion.emotion)
                           /\ word_emotion.confidence = scores[word_emotion.emotion]
                      ELSE /\ word_emotion.emotion = "neutral"
                           /\ word_emotion.confidence = Zero

(* one word's frame scores sad and angry alike and the word is sad; another
   word's frame has weight and scores no recognised label, and the word is
   neutral *)
C13_Witness ==
    /\ results.called
    /\ results.raised = ""
    /\ \E i, k \in 1..Len(results.value) :
           /\ MatchedWeight(i) > 0
           /\ results.value[i].emotion = "sad"
           /\ results.value[i].scores["angry"] = results.value[i].scores["sad"]
           /\ MatchedWeight(k) > 0
           /\ results.value[k].emotion = "neutral"
           /\ results.value[k].confidence = Zero
           /\ DOMAIN results.value[k].scores = EmotionSet

(* One utterance and its frames in every order: the words are one long word
   that takes in every timed frame, or two words that share them. *)
PermuteSegmentInputs ==
    { << [word |-> PyStr("well"), start |-> PyNum(0), end |-> PyNum(20)] >>,
      << [word |-> PyStr("hi"), start |-> PyNum(0), end |-> PyNum(10)],
         [word |-> PyStr("there"), start |-> PyNum(10), end |-> PyNum(20)] >> }

InitPermute ==
    /\ FusionIdle
    /\ ServerIdle
    /\ word_segments \in PermuteSegmentInputs
    /\ emotion_frames \in SeqsUpTo(FrameInputs, MaxFrames)
    /\ results = NotCalled
    /\ tagged_text = NotFormatted

SpecPermute == InitPermute /\ [][NextAlign]_vars

(* the frames in the order p *)
Permuted(frames, p) == [k \in 1..Len(frames) |-> frames[p[k]]]

(* C14: weighted aggregation does not depend on the order of the frames.  For
   every permutation of the frame sequence align_emotions gives every word the
   same emotion, confidence and scores (and raises for the one order when it
   raises for the other). *)
C14_OrderIndependent ==
    results.called =>
        \A p \in Permutations(1..Len(emotion_frames)) :
            LET other == align_emotions(word_segments, Permuted(emotion_frames, p))
            IN /\ (other.raised = "") = (results.raised = "")
               /\ other.value = results.value

(* two frames of different labels and different weights were matched to one
   word *)
C14_Witness ==
    /\ results.called
    /\ results.raised = ""
    /\ \E i \in 1..Len(results.value) :
           \E j, k \in results.matched[i] :
               /\ j < k
               /\ frame_weight(emotion_frames[j]).val # frame_weight(emotion_frames[k]).val
               /\ \E e \in EmotionSet :
                      /\ FrameLabelWeight(emotion_frames[j], e) > 0
                      /\ FrameLabelWeight(emotion_frames[k], e) = 0

(* the tags of a label *)
OpenTag(e) == "<" \o e \o ">"
CloseTag(e) == "</" \o e \o ">"
OpenTags == {OpenTag(e) : e \in EmotionSet}
CloseTags == {CloseTag(e) : e \in EmotionSet}

(* the number of maximal runs of consecutive equal labels *)
RunCount(word_emotions) ==
    Cardinality({i \in 1..Len(word_emotions) :
                    i = 1 \/ word_emotions[i].emotion # word_emotions[i - 1].emotion})

(* the number of tag pairs in a formatted text *)
PairCount(text) == Cardinality({i \in 1..Len(text) : text[i] \in OpenTags})

(* C15: format_tagged_text emits the least number of tags.  The number of tag
   pairs equals the number of maximal runs of equal labels; a closing tag is
   followed by a space and the opening tag of another label; words that all
   have one label come out as one pair around all of them, space-joined in
   order; an empty sequence gives the empty string. *)
C15_MinimalTags ==
    tagged_text.called =>
        LET text == tagged_text.value
            n == Len(results.value)
        IN /\ n = 0 => text = <<>>
           /\ n > 0 =>
                 /\ PairCount(text) = RunCount(results.value)
                 /\ Cardinality({i \in 1..Len(text) : text[i] \in CloseTags})
                        = PairCount(text)
                 /\ \A i \in 1..(Len(text) - 1) : \A e \in EmotionSet :
                        text[i] = CloseTag(e) =>
                            /\ text[i + 1] = " "
                            /\ text[i + 2] \in OpenTags \ {OpenTag(e)}
                 /\ RunCount(results.value) = 1 =>
                        /\ Len(text) = 2 * n + 1
                        /\ text[1] = OpenTag(results.value[1].emotion)
                        /\ text[2 * n + 1] = CloseTag(results.value[1].emotion)
                        /\ \A k \in 1..n : text[2 * k] = results.value[k].word
                        /\ \A k \in 1..(n - 1) : text[2 * k + 1] = " "

(* two words of one label, not neutral, were formatted under one pair *)
C15_Witness ==
    /\ tagged_text.called
    /\ Len(results.value) >= 2
    /\ RunCount(results.value) = 1
    /\ results.value[1].emotion # "neutral"
    /\ results.value[1].word # results.value[2].word
    /\ PairCount(tagged_text.value) = 1

(* a formatted text with its tags removed *)
StripTags(text) == SelectSeq(text, LAMBDA x : x \notin OpenTags \cup CloseTags)

(* C16: round trip.  Removing the tags from what format_tagged_text returned
   leaves the original words, in order, joined by single spaces: no word is
   dropped, duplicated or moved. *)
C16_RoundTrip ==
    tagged_text.called =>
        LET stripped == StripTags(tagged_text.value)
            n == Len(results.value)
        IN /\ Len(stripped) = (IF n = 0 THEN 0 ELSE 2 * n - 1)
           /\ \A k \in 1..n : stripped[2 * k - 1] = results.value[k].word
           /\ \A k \in 1..(n - 1) : stripped[2 * k] = " "

(* two different words of different labels were formatted as two runs *)
C16_Witness ==
    /\ tagged_text.called
    /\ Len(results.value) >= 2
    /\ RunCount(results.value) >= 2
    /\ results.value[1].word # results.value[2].word
    /\ PairCount(tagged_text.value) >= 2

----------------------------------------------------------------------------
(* Properties of the fused scores and of the aggregates *)

(* C17: with both windows non-empty, each label's fused score is 0.6 times the
   audio aggregate's score plus 0.4 times the video aggregate's score, the
   dominant label has the maximum fused score and is the earliest in canonical
   order of those that tie, and the fused confidence is that label's fused
   score. *)
C17_FusedScores ==
    (Returned /\ audio_readings # <<>> /\ video_readings # <<>>) =>
        LET f == last.ret
        IN /\ \A e \in EmotionSet :
                 f.fused_scores[e] = RAdd(RMul(f.audio.scores[e], Rat(6, 10)),
                                          RMul(f.video.scores[e], Rat(4, 10)))
           /\ IsFirstMax(f.fused_scores, f.dominant)
           /\ f.confidence = f.fused_scores[f.dominant]

(* the voice is two parts sad and one part angry, the face is happy: happy and
   sad tie at 0.4 and the fused label is happy *)
C17_Witness ==
    /\ Returned
    /\ audio_readings # <<>>
    /\ video_readings # <<>>
    /\ last.ret.audio.emotion = "sad"
    /\ last.ret.fused_scores["happy"] = Rat(4, 10)
    /\ last.ret.fused_scores["sad"] = Rat(4, 10)
    /\ last.ret.dominant = "happy"
    /\ last.ret.confidence = Rat(4, 10)

(* confidence * 0.5^(age / half_life) of reading r at time t, the age being a
   whole number of half-lives *)
HalfLives(r, t) == (t - r.timestamp) \div 10
DecayedWeight(r, t) == Rat(r.confidence, 10 * Pow2(HalfLives(r, t)))

(* the sum of the decayed weights of the readings i.. labelled with one of
   labels *)
RECURSIVE DecayedSum(_, _, _, _)
DecayedSum(readings, labels, t, i) ==
    IF i > Len(readings) THEN Zero
    ELSE RAdd(IF readings[i].emotion \in labels THEN DecayedWeight(readings[i], t) ELSE Zero,
              DecayedSum(readings, labels, t, i + 1))

(* x / y *)
RDiv(x, y) == Rat(x.n * y.d, x.d * y.n)

(* agg is the aggregate of the non-empty window readings at time t *)
IsDecayedAggregate(agg, readings, t) ==
    LET total == DecayedSum(readings, EmotionSet, t, 1)
        scores == [e \in EmotionSet |->
                      IF RGt(total, Zero)
                      THEN RDiv(DecayedSum(readings, {e}, t, 1), total)
                      ELSE DecayedSum(readings, {e}, t, 1)]
    IN /\ agg.scores = scores
       /\ IsFirstMax(scores, agg.emotion)
       /\ agg.confidence = scores[agg.emotion]

(* of two readings of equal positive confidence the newer weighs more *)
NewerOutweighs(readings, t) ==
    \A i, j \in 1..Len(readings) :
        (/\ readings[i].confidence = readings[j].confidence
         /\ readings[i].confidence > 0
         /\ readings[i].timestamp < readings[j].timestamp)
        => RGt(decayed_confidence(readings[j], t), decayed_confidence(readings[i], t))

(* C18: the aggregate of a non-empty window comes from decayed weights.  Each
   reading adds confidence * 0.5^(age / half_life) to its label, the sums are
   divided by the total weight (left as they are, all zero, when the total is
   zero), the emotion is the label of maximum share, the earliest in canonical
   order of those that tie, and the confidence is that share; a newer reading
   outweighs an older one of equal confidence. *)
C18_DecayedAggregate ==
    Returned =>
        /\ audio_readings # <<>> => IsDecayedAggregate(last.ret.audio, audio_readings, now)
        /\ video_readings # <<>> => IsDecayedAggregate(last.ret.video, video_readings, now)
        /\ NewerOutweighs(audio_readings, now)
        /\ NewerOutweighs(video_readings, now)

(* the voice window holds an older reading of higher confidence and a newer one
   of another label and lower confidence, and the newer one's label wins *)
C18_Witness ==
    /\ Returned
    /\ Len(audio_readings) = 2
    /\ audio_readings[1].timestamp < audio_readings[2].timestamp
    /\ audio_readings[1].confidence > audio_readings[2].confidence
    /\ audio_readings[1].emotion # audio_readings[2].emotion
    /\ last.ret.audio.emotion = audio_readings[2].emotion
    /\ last.ret.audio.confidence = Rat(8, 13)

(* every reading the engine holds *)
ReadingsHeld ==
    {audio_readings[i] : i \in 1..Len(audio_readings)}
        \cup {video_readings[i] : i \in 1..Len(video_readings)}

(* C19: a reading of confidence c aged exactly k half-lives (k * 10 seconds)
   has decayed_confidence c / 2^k: confidence 1.0 aged one half-life weighs
   0.5; and the decayed value never exceeds the stored confidence. *)
C19_HalfLife ==
    \A r \in ReadingsHeld :
        LET k == (now - r.timestamp) \div 10
        IN /\ (now - r.timestamp) % 10 = 0
           /\ k >= 0
           /\ decayed_confidence(r, now) = Rat(r.confidence, 10 * Pow2(k))
           /\ ~RGt(decayed_confidence(r, now), Rat(r.confidence, 10))
           /\ (r.confidence = 10 /\ k = 1) => decayed_confidence(r, now) = Rat(1, 2)

(* a reading of confidence 1.0 is one half-life old, beside one of confidence
   0.8 that is new *)
C19_Witness ==
    /\ \E r \in ReadingsHeld : r.confidence = 10 /\ now - r.timestamp = 10
    /\ \E r \in ReadingsHeld : r.confidence = 8 /\ now = r.timestamp

----------------------------------------------------------------------------
(* The two components side by side: a caller that aligns one utterance and
   feeds the fusion engine, with labels of every kind (canonical, upper-case,
   unrecognised, empty, None, no string, a score distribution with an
   unrecognised key). *)

LabelSegments ==
    << [word |-> PyStr("hi"), start |-> PyNum(0), end |-> PyNum(10)],
       [word |-> PyStr("there"), start |-> PyNum(10), end |-> PyNum(20)] >>

LabelFrameInputs ==
    { << [timestamp |-> PyNum(5), emotion |-> PyStr("HAPPY"), confidence |-> PyNum(8)],
         [timestamp |-> PyNum(15), emotion |-> PyStr("bored"), confidence |-> PyNum(9)] >>,
      << [timestamp |-> PyNum(5), confidence |-> PyNum(10),
          scores |-> PyDict([sad |-> 2, bored |-> 9])],
         [timestamp |-> PyNum(15), emotion |-> PyNone] >>,
      << [timestamp |-> PyNum(5), emotion |-> PyStr("")],
         [timestamp |-> PyNum(15), emotion |-> PyNum(5)] >>,
      << [timestamp |-> PyNum(5), confidence |-> PyNum(10),
          scores |-> PyDict([bored |-> 9])] >> }

LabelAudioInputs ==
    { <<PyStr("sad"), PyNum(8)>>, <<PyStr("bored"), PyNum(15)>>, <<PyStr(""), PyNum(15)>> }

LabelVideoInputs ==
    { <<PyStr("HAPPY"), PyNum(8)>>, <<PyStr("Angry"), PyNum(2)>>, <<PyStr("bored"), PyNum(15)>> }

InitLabels ==
    /\ FusionIdle
    /\ ServerIdle
    /\ word_segments = LabelSegments
    /\ emotion_frames \in LabelFrameInputs
    /\ results = NotCalled
    /\ tagged_text = NotFormatted

LabelUpdateAudio == UpdateAudioWith(LabelAudioInputs, MaxUpdates)
LabelUpdateVideo == UpdateVideoWith(LabelVideoInputs, MaxUpdates)

NextLabels ==
    \/ LabelUpdateAudio
    \/ LabelUpdateVideo
    \/ GetFusedEmotion
    \/ AlignEmotions
    \/ FormatTaggedText

SpecLabels == InitLabels /\ [][NextLabels]_vars

(* the tags format_tagged_text may write *)
CanonicalTags ==
    {"<" \o e \o ">" : e \in EmotionSet} \cup {"</" \o e \o ">" : e \in EmotionSet}

(* the words of the segments aligned *)
WordsAligned == {segment_word(word_segments[i]) : i \in 1..Len(word_segments)}

(* the labels an aggregate of get_fused_emotion carries *)
AggregateLabels(agg) == {agg.emotion} \cup DOMAIN agg.scores

(* C7: no label outside the seven canonical ones appears in output.  Every
   WordEmotion.emotion align_emotions returned, every tag format_tagged_text
   wrote, every reading stored in a fusion window, each modality aggregate's
   emotion and score keys, the fused dominant label and every key of
   fused_scores is one of EMOTIONS. *)
C7_OnlyCanonicalLabels ==
    /\ \A i \in 1..Len(results.value) : results.value[i].emotion \in EmotionSet
    /\ \A i \in 1..Len(tagged_text.value) :
           tagged_text.value[i] \in CanonicalTags \cup WordsAligned \cup {" "}
    /\ \A i \in 1..Len(audio_readings) : audio_readings[i].emotion \in EmotionSet
    /\ \A i \in 1..Len(video_readings) : video_readings[i].emotion \in EmotionSet
    /\ last.op = "get_fused_emotion" =>
           /\ AggregateLabels(last.ret.audio) \subseteq EmotionSet
           /\ AggregateLabels(last.ret.video) \subseteq EmotionSet
           /\ last.ret.dominant \in EmotionSet
           /\ DOMAIN last.ret.fused_scores \subseteq EmotionSet

(* an utterance whose frames carried an unrecognised label was aligned and
   tagged, both windows hold a reading made from an unrecognised label, and
   the fused state was computed *)
C7_Witness ==
    /\ tagged_text.called
    /\ Len(tagged_text.value) > 3
    /\ \E i \in 1..Len(emotion_frames) :
           /\ "emotion" \in DOMAIN emotion_frames[i]
           /\ emotion_frames[i].emotion = PyStr("bored")
    /\ \E i \in 1..Len(audio_readings) :
           audio_readings[i].emotion = "neutral" /\ audio_readings[i].confidence = 10
    /\ \E i \in 1..Len(video_readings) :
           video_readings[i].emotion = "neutral" /\ video_readings[i].confidence = 10
    /\ last.op = "get_fused_emotion"
    /\ last.ret.dominant = "neutral"

----------------------------------------------------------------------------
(* One label through both normalisations: the label of the one frame
   align_emotions aggregates for the word is the label every update_audio and
   update_video call is given. *)

LabelStrings ==
    { "happy", "sad", "angry", "neutral", "fearful", "disgusted", "surprised",
      "HAPPY", "Sad", "Angry", "Fearful", "bored", "BORED", "" }

OneWord == << [word |-> PyStr("hi"), start |-> PyNum(0), end |-> PyNum(10)] >>

InitSameLabel ==
    /\ FusionIdle
    /\ ServerIdle
    /\ word_segments = OneWord
    /\ \E label \in LabelStrings :
           emotion_frames = << [timestamp |-> PyNum(5), emotion |-> PyStr(label)] >>
    /\ results = NotCalled
    /\ tagged_text = NotFormatted

SameLabelUpdateAudio ==
    UpdateAudioWith({ <<emotion_frames[1].emotion, PyNum(8)>> }, MaxUpdates)

SameLabelUpdateVideo ==
    UpdateVideoWith({ <<emotion_frames[1].emotion, PyNum(8)>> }, MaxUpdates)

NextSameLabel ==
    \/ SameLabelUpdateAudio
    \/ SameLabelUpdateVideo
    \/ AlignEmotions
    \/ FormatTaggedText

SpecSameLabel == InitSameLabel /\ [][NextSameLabel]_vars

(* the lower-cased label when that is one of the seven canonical labels,
   neutral otherwise; written out label by label *)
ExpectedLabel(label) ==
    CASE label \in {"happy", "HAPPY"} -> "happy"
      [] label \in {"sad", "Sad"} -> "sad"
      [] label \in {"angry", "Angry"} -> "angry"
      [] label \in {"fearful", "Fearful"} -> "fearful"
      [] label = "disgusted" -> "disgusted"
      [] label = "surprised" -> "surprised"
      [] OTHER -> "neutral"

(* C20: label normalisation is case-insensitive and total in both components,
   and the two agree on every string label.  Whatever string label was given,
   no update call raised and align_emotions returned; the label the aligner
   gave the word and the label of every reading the fusion engine stored are
   both the lower-cased label when that is canonical and neutral otherwise,
   hence equal. *)
C20_NormalizationAgrees ==
    LET label == emotion_frames[1].emotion.val
    IN /\ last.raised = ""
       /\ results.raised = ""
       /\ results.called =>
              /\ Len(results.value) = 1
              /\ results.value[1].emotion = ExpectedLabel(label)
       /\ \A i \in 1..Len(audio_readings) :
              /\ audio_readings[i].emotion = ExpectedLabel(label)
              /\ results.called => audio_readings[i].emotion = results.value[1].emotion
       /\ \A i \in 1..Len(video_readings) :
              /\ video_readings[i].emotion = ExpectedLabel(label)
              /\ results.called => video_readings[i].emotion = results.value[1].emotion

(* an upper-case canonical label went through the aligner and through both
   update calls, and came out lower-cased in all three places *)
C20_Witness ==
    /\ emotion_frames[1].emotion = PyStr("HAPPY")
    /\ results.called
    /\ results.value[1].emotion = "happy"
    /\ audio_readings # <<>>
    /\ audio_readings[1].emotion = "happy"
    /\ video_readings # <<>>
    /\ video_readings[1].emotion = "happy"

----------------------------------------------------------------------------
(* main.py: the server.  One EmotionFusion, the module global emotion_fusion,
   serves every handler; the handlers run on one event loop, so the code
   between two awaits of a handler is one step.  A session id is a string and
   "" stands for None (get_or_create_session treats both alike). *)

(* d[k] = v *)
Put(d, k, v) == [x \in DOMAIN d \cup {k} |-> IF x = k THEN v ELSE d[x]]

(* str(uuid.uuid4()): an id no session has *)
UuidPool == {"u" \o ToString(i) : i \in 1..MaxRequests}
uuid4(ss) == CHOOSE u \in UuidPool : u \notin DOMAIN ss

NewSession == [messages |-> <<>>, emotion_history |-> <<>>]

(* get_or_create_session: the id returned and the sessions dict afterwards *)
get_or_create_session(ss, session_id) ==
    IF session_id # "" /\ session_id \in DOMAIN ss
    THEN [sid |-> session_id, sessions |-> ss]
    ELSE LET sid == IF session_id # "" THEN session_id ELSE uuid4(ss)
         IN [sid |-> sid, sessions |-> Put(ss, sid, NewSession)]

(* sessions[sid]["messages"].append(msg) *)
append_message(ss, sid, msg) ==
    Put(ss, sid, [ss[sid] EXCEPT !.messages = Append(@, msg)])

(* sessions[sid]["emotion_history"].append(entry) *)
append_emotion_history(ss, sid, entry) ==
    Put(ss, sid, [ss[sid] EXCEPT !.emotion_history = Append(@, entry)])

(* chat_engine.py, f"{confidence:.0%}": the confidence as a whole percentage,
   a tie rounded to the even one *)
Percent(c) ==
    LET q == (100 * c.n) \div c.d
        r == (100 * c.n) % c.d
        p == IF 2 * r > c.d THEN q + 1
             ELSE IF 2 * r = c.d THEN q + (q % 2)
             ELSE q
    IN ToString(p) \o "%"

(* build_emotion_context, lines 96-109: the guidance for the dominant label *)
guidance(dominant) ==
    CASE dominant \in {"sad", "fearful"} ->
             << "- Approach with extra gentleness and warmth. Prioritize validation." >>
      [] dominant = "angry" ->
             << "- Acknowledge the anger without escalating. Help explore what's underneath." >>
      [] dominant = "happy" ->
             << "- Share in their positive energy. Explore what's going well." >>
      [] dominant = "surprised" ->
             << "- Help them process what surprised them. Check if it's positive or negative surprise." >>
      [] OTHER -> <<>>

(* build_emotion_context, lines 83-89: the test that guards the incongruence
   line.  The aggregates' labels are non-empty strings, so
   audio_emo.get("emotion") and video_emo.get("emotion") are truthy. *)
incongruence_hinted(fused_emotion) ==
    /\ fused_emotion.audio.emotion # fused_emotion.video.emotion
    /\ fused_emotion.audio.emotion # "neutral"
    /\ fused_emotion.video.emotion # "neutral"

(* build_emotion_context: parts, the lines the function joins with "\n"; no
   line for a fused_emotion of None.  The warning sign that opens the
   incongruence line is left out. *)
build_emotion_context(fused_emotion) ==
    IF fused_emotion = NoRet THEN <<>>
    ELSE LET audio_emo == fused_emotion.audio
             video_emo == fused_emotion.video
             dominant == fused_emotion.dominant
         IN << "\n\n## Current Emotional State (Detected)",
               "- **Dominant emotion**: " \o dominant \o " (confidence: "
                   \o Percent(fused_emotion.confidence) \o ")" >>
            \o (IF audio_emo.emotion # "neutral"
                THEN << "- **Voice tone**: " \o audio_emo.emotion >> ELSE <<>>)
            \o (IF video_emo.emotion # "neutral"
                THEN << "- **Facial expression**: " \o video_emo.emotion >> ELSE <<>>)
            \o (IF incongruence_hinted(fused_emotion)
                THEN << "- **Incongruence detected**: Voice suggests '" \o audio_emo.emotion
                        \o "' but facial expression shows '" \o video_emo.emotion
                        \o "'. Gently explore this if appropriate." >>
                ELSE <<>>)
            \o guidance(dominant)

(* ChatEngine._build_messages: the system prompt, of which the model keeps the
   emotion context, then the last 20 messages, copied *)
HistoryLimit == 20
build_messages(messages, fused_emotion) ==
    << [role |-> "system", content |-> build_emotion_context(fused_emotion)] >>
    \o (IF Len(messages) > HistoryLimit
        THEN SubSeq(messages, Len(messages) - HistoryLimit + 1, Len(messages))
        ELSE messages)

(* the readings submitted under session sid; none when sid is "" *)
NoReadings == [audio |-> <<>>, video |-> <<>>]
OwnOf(o, sid) == IF sid \in DOMAIN o THEN o[sid] ELSE NoReadings

(* the readings submitted under sid, after the reading(s) inserted by a call
   made for sid joined them *)
Submit(o, sid, source, inserted, maxlen) ==
    IF sid = "" \/ inserted = <<>>
    THEN o
    ELSE LET mine == OwnOf(o, sid)
         IN Put(o, sid,
                IF source = "audio"
                THEN [mine EXCEPT !.audio = DequeAppend(@, inserted[1], maxlen)]
                ELSE [mine EXCEPT !.video = DequeAppend(@, inserted[1], maxlen)])

(* chat lines 267-270 and websocket_chat lines 345-348:
       if audio_emo: emotion_fusion.update_audio(audio_emo, 0.8)
       if video_emo: emotion_fusion.update_video(video_emo, 0.8)
   on the global engine.  own follows the same calls on the readings of
   session sid alone. *)
Skipped(readings) == [raised |-> "", readings |-> readings, inserted |-> <<>>]
fuse_request(sid, audio_emo, video_emo) ==
    LET a == IF Truthy(audio_emo)
             THEN update_audio(audio_readings, window_size, audio_emo, PyNum(8), now)
             ELSE Skipped(audio_readings)
        v == IF a.raised = "" /\ Truthy(video_emo)
             THEN update_video(video_readings, window_size, video_emo, PyNum(8), now)
             ELSE Skipped(video_readings)
        o1 == Submit(own, sid, "audio", a.inserted, window_size)
        o2 == Submit(o1, sid, "video", v.inserted, window_size)
    IN [raised |-> IF a.raised # "" THEN a.raised ELSE v.raised,
        audio |-> a.readings,
        video |-> v.readings,
        inserted |-> a.inserted \o v.inserted,
        own |-> o2]

fused_of_BeforeUpdates(f) ==
    IF f.raised = "" THEN get_fused_emotion(audio_readings, video_readings, now) ELSE NoRet

(* chat line 272 and websocket_chat line 350, after fuse_request:
       fused = emotion_fusion.get_fused_emotion()
   and, beside it, the fusion of the readings of session sid alone *)
fused_of(f) ==
    IF f.raised = "" THEN get_fused_emotion(f.audio, f.video, now) ELSE NoRet
expected_of(f, sid) ==
    IF f.raised = ""
    THEN get_fused_emotion(OwnOf(f.own, sid).audio, OwnOf(f.own, sid).video, now)
    ELSE NoRet

(* what clients send.  /api/emotion-update and /api/chat bodies are validated
   (video_emotion: str, confidence: float, audio_emotion: Optional[str]);
   a WebSocket message is any JSON object. *)
SessionIdInputs == {"", "A", "B"}

EmotionUpdateInputs ==
    { <<PyStr("HAPPY"), PyNum(9)>>, <<PyStr("bored"), PyNum(4)>> }

ChatEmotionInputs ==
    { <<PyNone, PyNone>>, <<PyStr("sad"), PyNone>>,
      <<PyNone, PyStr("HAPPY")>>, <<PyStr("sad"), PyStr("HAPPY")>> }

WsInputs ==
    { [type |-> PyStr("init"), session_id |-> PyStr("A")],
      [type |-> PyStr("init"), session_id |-> PyStr("B")],
      [type |-> PyStr("init")],
      [type |-> PyStr("emotion"), emotion |-> PyStr("HAPPY"), confidence |-> PyNum(9)],
      [type |-> PyStr("emotion")],
      [type |-> PyStr("emotion"), emotion |-> PyNone, confidence |-> PyNum(9)],
      [type |-> PyStr("message"), session_id |-> PyStr("B"), audio_emotion |-> PyStr("sad")],
      [session_id |-> PyStr("A"), video_emotion |-> PyStr("HAPPY")],
      [type |-> PyStr("message"), audio_emotion |-> PyStr("sad"), video_emotion |-> PyNum(5)],
      [type |-> PyStr("message")] }

(* data.get(name, default) *)
data_get(data, name, default) ==
    IF name \in DOMAIN data THEN data[name] ELSE default

(* a session id received, as get_or_create_session sees it *)
SidOf(v) == IF Truthy(v) THEN v.val ELSE ""

(* the state the server starts serving in: startup has loaded the chat engine
   or failed to; the global engine is EmotionFusion() *)
InitServer ==
    /\ AlignerIdle
    /\ window_size = DefaultWindowSize
    /\ audio_readings = <<>>
    /\ video_readings = <<>>
    /\ now = 0
    /\ history = <<>>
    /\ last = Step("__init__", PyNone, PyNone, "", NoRet)
    /\ chat_engine \in BOOLEAN
    /\ sessions = EmptyMap
    /\ tasks = EmptyMap
    /\ ws = NoWs
    /\ own = EmptyMap
    /\ received = 0

(* POST /api/emotion-update, lines 243-255 *)
EmotionUpdate ==
    \E sid_in \in SessionIdInputs, inp \in EmotionUpdateInputs :
        LET g == get_or_create_session(sessions, sid_in)
            entry == [source |-> "video", emotion |-> inp[1], confidence |-> inp[2]]
            out == update_video(video_readings, window_size, inp[1], inp[2], now)
        IN /\ received < MaxRequests
           /\ received' = received + 1
           /\ sessions' = append_emotion_history(g.sessions, g.sid, entry)
           /\ video_readings' = out.readings
           /\ history' = history \o out.inserted
           /\ own' = Submit(own, g.sid, "video", out.inserted, window_size)
           /\ last' = Step("update_video", inp[1], inp[2], out.raised, NoRet)
           /\ UNCHANGED <<window_size, audio_readings, now, chat_engine, tasks, ws,
                          aligner_vars>>

(* POST /api/chat, lines 259-277: up to the await of chat_engine.chat, which
   has built the messages it sends by then *)
ChatBeginWith(sids, inputs, budget) ==
    \E sid_in \in sids, emo \in inputs :
        LET r == received + 1
            g == get_or_create_session(sessions, sid_in)
            f == fuse_request(g.sid, emo[1], emo[2])
            ss == append_message(g.sessions, g.sid, [role |-> "user", content |-> r])
        IN /\ received < budget
           /\ received' = r
           /\ IF ~chat_engine
              THEN /\ tasks' = Put(tasks, r, [pc |-> "done", sid |-> "", fused |-> NoRet,
                                              expected |-> NoRet, seen |-> <<>>,
                                              emo |-> emo, at |-> Len(history)])
                   /\ UNCHANGED <<sessions, audio_readings, video_readings, history,
                                  own, last>>
              ELSE /\ tasks' = Put(tasks, r, [pc |-> "llm", sid |-> g.sid,
                                              fused |-> fused_of(f),
                                              expected |-> expected_of(f, g.sid),
                                              seen |-> build_messages(ss[g.sid].messages, fused_of(f)),
                                              emo |-> emo, at |-> Len(history)])
                   /\ sessions' = ss
                   /\ audio_readings' = f.audio
                   /\ video_readings' = f.video
                   /\ history' = history \o f.inserted
                   /\ own' = f.own
                   /\ last' = [Step("get_fused_emotion", PyNone, PyNone, "",
                                     tasks'[r].fused)
                                  EXCEPT !.before = <<Len(f.audio), Len(f.video)>>]
           /\ UNCHANGED <<window_size, now, chat_engine, ws, aligner_vars>>

ChatBegin == ChatBeginWith(SessionIdInputs, ChatEmotionInputs, MaxRequests)

(* POST /api/chat, lines 282-288: the response arrived *)
ChatEnd ==
    \E r \in DOMAIN tasks :
        /\ tasks[r].pc = "llm"
        /\ sessions' = append_message(sessions, tasks[r].sid,
                                      [role |-> "assistant", content |-> r])
        /\ tasks' = Put(tasks, r, [tasks[r] EXCEPT !.pc = "done"])
        /\ UNCHANGED <<fusion_vars, aligner_vars, chat_engine, ws, own, received>>

(* websocket_chat, lines 311-312: accept, session_id = None *)
WsAccept ==
    /\ ws.pc = "closed"
    /\ ws' = [NoWs EXCEPT !.pc = "recv"]
    /\ UNCHANGED <<fusion_vars, aligner_vars, chat_engine, sessions, tasks, own, received>>

(* data.get("type", "message") *)
msg_type(data) == data_get(data, "type", PyStr("message")).val

(* websocket_chat, lines 320-328: an 'init' message *)
WsInit ==
    \E data \in WsInputs :
        LET g == get_or_create_session(sessions, SidOf(data_get(data, "session_id", PyNone)))
        IN /\ ws.pc = "recv"
           /\ received < MaxRequests
           /\ msg_type(data) = "init"
           /\ received' = received + 1
           /\ sessions' = g.sessions
           /\ ws' = [ws EXCEPT !.session_id = g.sid]
           /\ UNCHANGED <<fusion_vars, aligner_vars, chat_engine, tasks, own>>

(* websocket_chat, lines 330-336: an 'emotion' message.  An exception of
   update_video reaches the handler's except clause (lines 442-447), which
   ends the connection. *)
WsEmotion ==
    \E data \in WsInputs :
        LET emotion == data_get(data, "emotion", PyStr("neutral"))
            confidence == data_get(data, "confidence", PyNum(5))
            out == update_video(video_readings, window_size, emotion, confidence, now)
        IN /\ ws.pc = "recv"
           /\ received < MaxRequests
           /\ msg_type(data) = "emotion"
           /\ received' = received + 1
           /\ video_readings' = out.readings
           /\ history' = history \o out.inserted
           /\ own' = Submit(own, ws.session_id, "video", out.inserted, window_size)
           /\ last' = Step("update_video", emotion, confidence, out.raised, NoRet)
           /\ ws' = IF out.raised = "" THEN ws ELSE NoWs
           /\ UNCHANGED <<window_size, audio_readings, now, aligner_vars, chat_engine,
                          sessions, tasks>>

(* websocket_chat, lines 338-358: a 'message', up to the await that sends the
   emotion summary *)
WsMessage ==
    \E data \in WsInputs :
        LET r == received + 1
            given == IF ws.session_id # "" THEN ws.session_id
                     ELSE SidOf(data_get(data, "session_id", PyNone))
            g == get_or_create_session(sessions, given)
            f == fuse_request(g.sid, data_get(data, "audio_emotion", PyNone),
                              data_get(data, "video_emotion", PyNone))
        IN /\ ws.pc = "recv"
           /\ received < MaxRequests
           /\ msg_type(data) = "message"
           /\ received' = r
           /\ sessions' = g.sessions
           /\ audio_readings' = f.audio
           /\ video_readings' = f.video
           /\ history' = history \o f.inserted
           /\ own' = f.own
           /\ ws' = IF f.raised # "" THEN NoWs
                    ELSE [ws EXCEPT !.pc = "summary", !.session_id = g.sid, !.req = r,
                                    !.fused = fused_of(f),
                                    !.expected = expected_of(f, g.sid),
                                    !.seen = <<>>,
                                    !.emo = <<data_get(data, "audio_emotion", PyNone),
                                              data_get(data, "video_emotion", PyNone)>>,
                                    !.at = Len(history)]
           /\ last' = [Step("get_fused_emotion", PyNone, PyNone, f.raised, ws'.fused)
                          EXCEPT !.before = <<Len(f.audio), Len(f.video)>>]
           /\ UNCHANGED <<window_size, now, aligner_vars, chat_engine, tasks>>

(* websocket_chat, lines 360-378: the summary is sent; the user message joins
   the session, and chat_stream builds the messages it sends *)
WsMessageUser ==
    LET ss == append_message(sessions, ws.session_id,
                             [role |-> "user", content |-> ws.req])
    IN /\ ws.pc = "summary"
       /\ sessions' = ss
       /\ ws' = IF chat_engine
                THEN [ws EXCEPT !.pc = "llm",
                                !.seen = build_messages(ss[ws.session_id].messages, ws.fused)]
                ELSE [ws EXCEPT !.pc = "recv"]
       /\ UNCHANGED <<fusion_vars, aligner_vars, chat_engine, tasks, own, received>>

(* websocket_chat, lines 388-401: the stream ended *)
WsMessageDone ==
    /\ ws.pc = "llm"
    /\ sessions' = append_message(sessions, ws.session_id,
                                  [role |-> "assistant", content |-> ws.req])
    /\ ws' = [ws EXCEPT !.pc = "recv"]
    /\ UNCHANGED <<fusion_vars, aligner_vars, chat_engine, tasks, own, received>>

(* websocket_chat, lines 440-441: the client went away while the handler
   awaited a receive or a send *)
WsDisconnect ==
    /\ ws.pc \in {"recv", "summary", "llm"}
    /\ ws' = NoWs
    /\ UNCHANGED <<fusion_vars, aligner_vars, chat_engine, sessions, tasks, own, received>>

NextServer ==
    \/ EmotionUpdate
    \/ ChatBegin
    \/ ChatEnd
    \/ WsAccept
    \/ WsInit
    \/ WsEmotion
    \/ WsMessage
    \/ WsMessageUser
    \/ WsMessageDone
    \/ WsDisconnect

SpecServer == InitServer /\ [][NextServer]_vars

----------------------------------------------------------------------------
(* Server properties *)

(* every fused state a handler holds *)
FusedHeld ==
    { <<tasks[r].fused, tasks[r].expected>> : r \in {x \in DOMAIN tasks : tasks[x].pc = "llm"} }
    \cup (IF ws.pc \in {"summary", "llm"} THEN {<<ws.fused, ws.expected>>} ELSE {})

(* C6, as stated: fusion state is per session.  The fused state the server
   computes for a request of session A is the fusion of the readings submitted
   under session A alone; readings submitted for another session never change
   it. *)
C6_AsStated == \A h \in FusedHeld : h[1] = h[2]

(* every handler that holds a fused state, at an await after it read it: the
   fused state, the labels its request carried, and the number of readings the
   engine had been given when the handler's step began *)
HandlersHolding ==
    { <<tasks[r].fused, tasks[r].emo, tasks[r].at>> :
          r \in {x \in DOMAIN tasks : tasks[x].pc = "llm"} }
    \cup (IF ws.pc \in {"summary", "llm"} THEN {<<ws.fused, ws.emo, ws.at>>} ELSE {})

(* the readings a request's own update calls construct *)
OwnReadings(emo) ==
    (IF Truthy(emo[1])
     THEN << [emotion |-> ExpectedLabel(emo[1].val), confidence |-> 8,
              source |-> "audio", timestamp |-> now] >>
     ELSE <<>>)
    \o (IF Truthy(emo[2])
        THEN << [emotion |-> ExpectedLabel(emo[2].val), confidence |-> 8,
                 source |-> "video", timestamp |-> now] >>
        ELSE <<>>)

(* the window of one modality after the first n readings given to the engine *)
WindowAt(n, source) ==
    LET ins == SelectSeq(SubSeq(history, 1, n), LAMBDA r : r.source = source)
    IN LastN(ins, Min(Len(ins), window_size))

(* C21: access to the fusion state is serialized per request.  Whatever
   handlers run between the awaits of a handler, the readings of its own
   update_audio / update_video calls follow one another in the order the
   engine received readings, with no reading of another handler between them,
   and the fused state the handler holds is the fusion of the windows as they
   stood right after its own last update. *)
C21_SerializedPerRequest ==
    \A h \in HandlersHolding :
        LET mine == OwnReadings(h[2])
            upto == h[3] + Len(mine)
        IN /\ upto <= Len(history)
           /\ SubSeq(history, h[3] + 1, upto) = mine
           /\ h[1] = get_fused_emotion(WindowAt(upto, "audio"), WindowAt(upto, "video"), now)

(* a chat handler that made both updates awaits the language model, and
   another handler has updated the engine since it read the fused state *)
C21_Witness ==
    \E r \in DOMAIN tasks :
        /\ tasks[r].pc = "llm"
        /\ Truthy(tasks[r].emo[1])
        /\ Truthy(tasks[r].emo[2])
        /\ Len(history) > tasks[r].at + 2

----------------------------------------------------------------------------
(* Further properties of the fusion engine *)

(* a confidence clamped to [0, 1], in tenths *)
Clamped(c) == IF c < 0 THEN 0 ELSE IF c > 10 THEN 10 ELSE c

(* C22, as stated: each update_audio / update_video call appends exactly one
   reading at the tail of its own window, labelled with the normalized input
   label and carrying the input confidence clamped to [0, 1]; every reading in
   either window has a confidence in [0, 1]. *)
C22_AsStated ==
    /\ last.op \in {"update_audio", "update_video"} =>
           LET w == WindowOf(last.op)
           IN /\ Len(w) = Min(BeforeOf(last) + 1, window_size)
              /\ w[Len(w)].source = (IF last.op = "update_audio" THEN "audio" ELSE "video")
              /\ w[Len(w)].timestamp = now
              /\ w[Len(w)].emotion =
                     (IF last.emotion.type = "str" THEN ExpectedLabel(last.emotion.val)
                      ELSE "neutral")
              /\ last.confidence.type = "float"
              /\ w[Len(w)].confidence = Clamped(last.confidence.val)
    /\ \A i \in 1..Len(audio_readings) : audio_readings[i].confidence \in 0..10
    /\ \A i \in 1..Len(video_readings) : video_readings[i].confidence \in 0..10

(* what one step of the engine may change *)
FrameStep ==
    /\ last'.op = "update_audio" => video_readings' = video_readings
    /\ last'.op = "update_video" => audio_readings' = audio_readings
    /\ last'.op = "get_fused_emotion" =>
           /\ audio_readings' = audio_readings
           /\ video_readings' = video_readings
    /\ audio_readings' # audio_readings => last'.op \in {"update_audio", "reset"}
    /\ video_readings' # video_readings => last'.op \in {"update_video", "reset"}

(* a get_fused_emotion call made now, right after the one that returned,
   returns the same FusionState *)
SameAgain ==
    last.op = "get_fused_emotion" =>
        get_fused_emotion(audio_readings, video_readings, now) = last.ret

(* C23: frame conditions of the fusion engine.  update_audio leaves the video
   window unchanged, update_video leaves the audio window unchanged,
   get_fused_emotion changes neither window, so that a second call at the same
   instant returns the same FusionState; a window changes only in a step of
   the matching update or of reset. *)
C23_FrameConditions == [][FrameStep]_vars /\ []SameAgain

(* get_fused_emotion returned a fused state built from readings of both
   modalities, and both windows still hold them *)
C23_Witness ==
    /\ last.op = "get_fused_emotion"
    /\ audio_readings # <<>>
    /\ video_readings # <<>>
    /\ last.ret.audio.confidence # Zero
    /\ last.ret.video.confidence # Zero

----------------------------------------------------------------------------
(* The prompt beside the fused state.  The server starts from a video window
   that 'emotion' messages of a WebSocket connection, closed since, have
   filled; /api/chat requests follow. *)

PromptVideoWindows ==
    { <<>>,
      << EmotionReading("happy", 9, "video", 0) >>,
      << EmotionReading("sad", 9, "video", 0) >>,
      << EmotionReading("neutral", 9, "video", 0), EmotionReading("angry", 3, "video", 0) >>,
      << EmotionReading("angry", 5, "video", 0), EmotionReading("fearful", 5, "video", 0),
         EmotionReading("disgusted", 5, "video", 0), EmotionReading("surprised", 5, "video", 0) >> }

InitPrompt ==
    /\ AlignerIdle
    /\ window_size = DefaultWindowSize
    /\ audio_readings = <<>>
    /\ video_readings \in PromptVideoWindows
    /\ now = 0
    /\ history = video_readings
    /\ last = Step("__init__", PyNone, PyNone, "", NoRet)
    /\ chat_engine = TRUE
    /\ sessions = EmptyMap
    /\ tasks = EmptyMap
    /\ ws = NoWs
    /\ own = EmptyMap
    /\ received = 0

PromptChatBegin == ChatBeginWith({"A"}, ChatEmotionInputs, MaxRequests)

NextPrompt ==
    \/ PromptChatBegin
    \/ ChatEnd

SpecPrompt == InitPrompt /\ [][NextPrompt]_vars

(* the incongruence lines build_emotion_context can write *)
IncongruenceLines ==
    { "- **Incongruence detected**: Voice suggests '" \o a
          \o "' but facial expression shows '" \o v
          \o "'. Gently explore this if appropriate." : a \in EmotionSet, v \in EmotionSet }

(* the system prompt of the messages sent carries the incongruence hint *)
HasHint(seen) ==
    \E i \in 1..Len(seen[1].content) : seen[1].content[i] \in IncongruenceLines

(* C24, as stated: the language-model prompt carries the incongruence hint
   exactly when the fusion engine flags incongruence.  For every handler that
   awaits the language model, the emotion context it sent holds the
   'Incongruence detected' line if and only if the fused state it passed has
   incongruence true. *)
C24_AsStated ==
    \A r \in DOMAIN tasks :
        tasks[r].pc = "llm" => (HasHint(tasks[r].seen) <=> tasks[r].fused.incongruence)

----------------------------------------------------------------------------
(* The engine across idle periods *)

IdleAudioInputs ==
    { <<PyStr("sad"), PyNum(8)>>, <<PyStr("angry"), PyNum(5)>>, <<PyStr("angry"), PyNum(0)>> }

IdleVideoInputs ==
    { <<PyStr("HAPPY"), PyNum(8)>>, <<PyStr("sad"), PyNum(0)>> }

IdleUpdateAudio == UpdateAudioWith(IdleAudioInputs, MaxUpdates)
IdleUpdateVideo == UpdateVideoWith(IdleVideoInputs, MaxUpdates)

NextIdle ==
    \/ IdleUpdateAudio
    \/ IdleUpdateVideo
    \/ GetFusedEmotion
    \/ Tick
    \/ Idle

SpecIdle == Init /\ [][NextIdle]_vars

(* the labels of the readings with a positive confidence *)
PositiveLabels(readings) ==
    { readings[i].emotion : i \in {j \in 1..Len(readings) : readings[j].confidence > 0} }

(* the labels of the readings whose decayed weight is positive: the confidence
   is, and the reading is younger than UnderflowHalfLives half-lives *)
WeighingLabels(readings) ==
    { readings[i].emotion :
          i \in {j \in 1..Len(readings) :
                    /\ readings[j].confidence > 0
                    /\ now - readings[j].timestamp < UnderflowHalfLives * DECAY_HALF_LIFE} }

(* voice label A and face label V differ: the fused dominant is A with
   confidence 0.6, and fused_scores[V] is 0.4 *)
VoiceOutweighs(A, V) ==
    (Cardinality(A) = 1 /\ Cardinality(V) = 1 /\ A # V) =>
        LET a == CHOOSE x \in A : TRUE
            v == CHOOSE x \in V : TRUE
        IN /\ last.ret.dominant = a
           /\ last.ret.confidence = Rat(6, 10)
           /\ last.ret.fused_scores[v] = Rat(4, 10)

(* C25, as stated: whenever both windows are non-empty, all audio readings
   with positive confidence carry one label A and all video readings with
   positive confidence carry one different label V, the fused dominant is A
   with fused confidence 0.6 and fused_scores[V] = 0.4, for any confidences and
   ages of the readings. *)
C25_AsStated ==
    (Returned /\ audio_readings # <<>> /\ video_readings # <<>>) =>
        VoiceOutweighs(PositiveLabels(audio_readings), PositiveLabels(video_readings))

(* C25, amended: the same, for the readings whose decayed weight is positive.
   Whenever the audio readings of positive decayed weight carry one label A
   and the video readings of positive decayed weight carry one different
   label V, the fused dominant is A with confidence 0.6 and fused_scores[V] is
   0.4. *)
C25_VoiceOutweighsFace ==
    (Returned /\ audio_readings # <<>> /\ video_readings # <<>>) =>
        VoiceOutweighs(WeighingLabels(audio_readings), WeighingLabels(video_readings))

(* the audio window holds an angry reading made before an idle period, which
   weighs nothing any more, and a sad reading made since; the face shows happy;
   the fused state is sad at 0.6 *)
C25_Witness ==
    /\ Returned
    /\ PositiveLabels(audio_readings) = {"angry", "sad"}
    /\ WeighingLabels(audio_readings) = {"sad"}
    /\ WeighingLabels(video_readings) = {"happy"}
    /\ last.ret.dominant = "sad"
    /\ last.ret.confidence = Rat(6, 10)

----------------------------------------------------------------------------
(* Further properties of the aligner *)

(* the frames that carry a single label and no score distribution *)
LabelOnly(frames) ==
    { i \in 1..Len(frames) : "scores" \notin DOMAIN frames[i] /\ "emotion" \in DOMAIN frames[i] }

(* the distribution that puts 1 on the normalized label of the frame and 0 on
   every other label *)
OneHot(label) ==
    LET on == IF label.type = "str" THEN ExpectedLabel(label.val) ELSE "neutral"
    IN PyDict([e \in EmotionSet |-> IF e = on THEN 10 ELSE 0])

(* the frame with that distribution in place of its label, all else as it was *)
AsDistribution(frame) ==
    [k \in (DOMAIN frame \ {"emotion"}) \cup {"scores"} |->
        IF k = "scores" THEN OneHot(frame.emotion) ELSE frame[k]]

(* frames, those at the indices in S replaced by their distribution frames *)
ReplaceAt(frames, S) ==
    [i \in 1..Len(frames) |-> IF i \in S THEN AsDistribution(frames[i]) ELSE frames[i]]

(* C26: a frame that carries only a single label is aggregated exactly like
   the frame that carries, with the same confidence, the distribution putting
   1 on the normalized label and 0 on every other label.  Replacing any of the
   label-only frames by their distribution frames gives the same outcome of
   align_emotions: the same exception if it raised, else the same emotion,
   confidence and scores for every word. *)
C26_LabelAsDistribution ==
    results.called =>
        \A S \in SUBSET LabelOnly(emotion_frames) :
            LET other == align_emotions(word_segments, ReplaceAt(emotion_frames, S))
            IN /\ other.raised = results.raised
               /\ other.value = results.value

(* a word was given a label other than neutral with a confidence below 1 from
   two frames, one of them carrying an upper-case label and a confidence *)
C26_Witness ==
    /\ results.called
    /\ \E i \in LabelOnly(emotion_frames) :
           /\ emotion_frames[i].emotion = PyStr("HAPPY")
           /\ \E w \in 1..Len(results.value) :
                  /\ i \in results.matched[w]
                  /\ results.value[w].emotion = "happy"
                  /\ results.value[w].confidence # One

(* align_emotions on malformed timestamps: segment bounds and frame
   timestamps that are numbers, strings that parse or do not, None, missing,
   or an int too large for a float; every confidence is one float() accepts *)
TimestampSegmentInputs ==
    { [word |-> PyStr("hi"), start |-> PyNum(0), end |-> PyNum(10)],
      [word |-> PyStr("so"), start |-> PyStr("soon"), end |-> PyStr("1.0")],
      [word |-> PyStr("um"), start |-> PyNum(5), end |-> PyNone],
      [word |-> PyStr("far"), start |-> PyHuge, end |-> PyNum(10)] }

TimestampFrameInputs ==
    { [timestamp |-> PyNum(0), emotion |-> PyStr("sad"), confidence |-> PyNum(8)],
      [timestamp |-> PyNum(5), emotion |-> PyStr("HAPPY")],
      [timestamp |-> PyStr("late"), emotion |-> PyStr("angry"), confidence |-> PyNum(8)],
      [emotion |-> PyStr("angry"), confidence |-> PyNum(8)],
      [timestamp |-> PyHuge, emotion |-> PyStr("sad")] }

InitTimestamps ==
    /\ FusionIdle
    /\ ServerIdle
    /\ word_segments \in SeqsUpTo(TimestampSegmentInputs, MaxWords)
    /\ emotion_frames \in SeqsUpTo(TimestampFrameInputs, MaxFrames)
    /\ results = NotCalled
    /\ tagged_text = NotFormatted

SpecTimestamps == InitTimestamps /\ [][NextAlign]_vars

(* a segment bound float() does not accept *)
BoundUnparseable(segment, name) == ~FloatOf(get_attr(segment, name, PyNum(0))).ok

(* C27, as stated: malformed timestamps fail soft in align_emotions.  A frame
   whose timestamp is missing or unparseable is matched to no word and never
   raises; a segment whose start is unparseable starts at 0.0; a segment whose
   end is unparseable ends at its start, matches no frame and is reported
   neutral with confidence 0.0.  The call raises only where a confidence is
   to blame. *)
C27_AsStated ==
    results.called =>
        /\ results.raised # "" =>
               \E j \in 1..Len(emotion_frames) : ~frame_weight(emotion_frames[j]).ok
        /\ Len(word_segments) > 0 => Len(results.spans) > 0
        /\ \A i \in 1..Len(results.spans) :
               /\ \A j \in 1..Len(emotion_frames) :
                      ~HasParseableTimestamp(emotion_frames[j]) => j \notin results.matched[i]
               /\ BoundUnparseable(word_segments[i], "start") => results.spans[i][1] = 0
               /\ BoundUnparseable(word_segments[i], "end") =>
                      /\ results.spans[i][2] = results.spans[i][1]
                      /\ results.matched[i] = {}
                      /\ i <= Len(results.value) => IsNeutralEmpty(results.value[i])

(* align_emotions on words that touch: words of positive length, a word of no
   length, a word that ends before it starts; frames on and between the
   boundaries *)
BoundarySegmentInputs ==
    { [word |-> PyStr("hi"), start |-> PyNum(0), end |-> PyNum(10)],
      [word |-> PyStr("um"), start |-> PyNum(10), end |-> PyNum(10)],
      [word |-> PyStr("there"), start |-> PyNum(10), end |-> PyNum(20)],
      [word |-> PyStr("back"), start |-> PyNum(10), end |-> PyNum(5)],
      [word |-> PyStr("again"), start |-> PyNum(5), end |-> PyNum(20)] }

BoundaryFrameInputs ==
    { [timestamp |-> PyNum(0), emotion |-> PyStr("sad")],
      [timestamp |-> PyNum(7), emotion |-> PyStr("angry")],
      [timestamp |-> PyNum(10), emotion |-> PyStr("HAPPY")],
      [timestamp |-> PyNum(20), emotion |-> PyStr("sad")] }

(* one word more than MaxWords: a word between two others *)
InitBoundaries ==
    /\ FusionIdle
    /\ ServerIdle
    /\ word_segments \in SeqsUpTo(BoundarySegmentInputs, MaxWords + 1)
    /\ emotion_frames \in SeqsUpTo(BoundaryFrameInputs, MaxFrames)
    /\ results = NotCalled
    /\ tagged_text = NotFormatted

SpecBoundaries == InitBoundaries /\ [][NextAlign]_vars

(* the words frame j was matched to *)
Owners(j) == { i \in 1..Len(results.matched) : j \in results.matched[i] }

(* each end <= the next start *)
NonOverlapping ==
    \A i \in 1..(Len(results.spans) - 1) : results.spans[i][2] <= results.spans[i + 1][1]

(* each end = the next start *)
Contiguous ==
    \A i \in 1..(Len(results.spans) - 1) : results.spans[i][2] = results.spans[i + 1][1]

(* no word ends before it starts *)
StartsBeforeEnds ==
    \A i \in 1..Len(results.spans) : results.spans[i][1] <= results.spans[i][2]

(* frame j lies in [first start, last end) *)
InUtterance(j) ==
    /\ results.spans[1][1] <= TimestampOf(emotion_frames[j])
    /\ TimestampOf(emotion_frames[j]) < results.spans[Len(results.spans)][2]

(* the first word after word i that has a positive length, if any *)
NextWordOfLength(i) ==
    { k \in (i + 1)..Len(results.spans) :
        /\ results.spans[k][1] < results.spans[k][2]
        /\ \A m \in (i + 1)..(k - 1) : results.spans[m][1] = results.spans[m][2] }

(* C28, as stated: for word segments that do not overlap (each end <= the next
   start) every frame contributes to at most one word's aggregate; when
   consecutive segments are contiguous, a frame exactly at a word's end
   boundary is assigned to the next word, and every frame with a timestamp in
   [first start, last end) is assigned to exactly one word. *)
C28_AsStated ==
    (results.called /\ results.raised = "" /\ Len(results.spans) > 0) =>
        /\ NonOverlapping =>
               \A j \in 1..Len(emotion_frames) : Cardinality(Owners(j)) <= 1
        /\ Contiguous =>
               \A j \in 1..Len(emotion_frames) :
                   /\ \A i \in 1..(Len(results.spans) - 1) :
                          TimestampOf(emotion_frames[j]) = results.spans[i][2]
                              => j \in results.matched[i + 1]
                   /\ InUtterance(j) => Cardinality(Owners(j)) = 1

(* C28, amended: for word segments none of which ends before it starts and
   that do not overlap, every frame contributes to at most one word's
   aggregate; when they are contiguous, a frame exactly at a word's end
   boundary is never assigned to that word but to the first later word of
   positive length, or to no word if there is none, and every frame with a
   timestamp in [first start, last end) is assigned to exactly one word. *)
C28_BoundaryGoesForward ==
    (results.called /\ results.raised = "" /\ Len(results.spans) > 0 /\ StartsBeforeEnds) =>
        /\ NonOverlapping =>
               \A j \in 1..Len(emotion_frames) : Cardinality(Owners(j)) <= 1
        /\ Contiguous =>
               \A j \in 1..Len(emotion_frames) :
                   /\ \A i \in 1..Len(results.spans) :
                          TimestampOf(emotion_frames[j]) = results.spans[i][2]
                              => /\ j \notin results.matched[i]
                                 /\ Owners(j) = NextWordOfLength(i)
                   /\ InUtterance(j) => Cardinality(Owners(j)) = 1

(* three contiguous words, the middle one of no length; the frame at the end
   of the first word went to the third *)
C28_Witness ==
    /\ results.called
    /\ Len(results.spans) = 3
    /\ Contiguous
    /\ StartsBeforeEnds
    /\ results.spans[1][1] < results.spans[1][2]
    /\ results.spans[2][1] = results.spans[2][2]
    /\ \E j \in 1..Len(emotion_frames) :
           /\ TimestampOf(emotion_frames[j]) = results.spans[1][2]
           /\ Owners(j) = {3}

----------------------------------------------------------------------------
(* Evidence behind the labels of the fused state *)

(* the labels the readings of a window carry *)
LabelsIn(readings) == { readings[i].emotion : i \in 1..Len(readings) }

(* C29, as stated: evidence-backed labels.  The audio and the video aggregate
   emotion returned by get_fused_emotion are each neutral or a label carried
   by a reading in that modality's window; the fused dominant is neutral or a
   label carried by a reading in either window; when the fused confidence is
   0.0 the dominant label is neutral. *)
C29_AsStated ==
    Returned =>
        /\ last.ret.audio.emotion \in {"neutral"} \cup LabelsIn(audio_readings)
        /\ last.ret.video.emotion \in {"neutral"} \cup LabelsIn(video_readings)
        /\ last.ret.dominant \in
               {"neutral"} \cup LabelsIn(audio_readings) \cup LabelsIn(video_readings)
        /\ last.ret.confidence = Zero => last.ret.dominant = "neutral"

----------------------------------------------------------------------------
(* Turns of one session under interleaved chat handlers *)

(* in every session's history each assistant message directly follows the user
   message of the same request *)
TurnsPaired ==
    \A sid \in DOMAIN sessions :
        LET m == sessions[sid].messages
        IN \A i \in 1..Len(m) :
               m[i].role = "assistant" =>
                   /\ i > 1
                   /\ m[i - 1] = [role |-> "user", content |-> m[i].content]

(* the messages built for every request that awaits the language model end
   with the request's own user message *)
OwnTurnLast ==
    /\ \A r \in DOMAIN tasks :
           tasks[r].pc = "llm" =>
               tasks[r].seen[Len(tasks[r].seen)] = [role |-> "user", content |-> r]
    /\ ws.pc = "llm" => ws.seen[Len(ws.seen)] = [role |-> "user", content |-> ws.req]

(* C30, as stated: user and assistant turns stay paired.  Under every
   interleaving of the chat handlers of one session id, each assistant message
   is appended immediately after the user message it answers, with no other
   request's message between them, and the history passed to the language
   model for a request ends with that request's own user message. *)
C30_AsStated == TurnsPaired /\ OwnTurnLast
====
